---- MODULE Spec2Model ----
(***************************************************************************)
(* A model of the Deed database kernel: the property-graph store           *)
(* (deed/core/graph.py), its entities, edges, collections and indexes      *)
(* (deed/core/entity.py, edge.py, collection.py) and the query executor    *)
(* that runs parsed plans against the store (deed/query/executor.py).      *)
(*                                                                         *)
(* Python objects are shared by reference: the entity table and every      *)
(* collection hold references to Entity objects.  The model keeps the      *)
(* objects in a heap indexed by object number; tables hold object numbers. *)
(* Unreferenced objects are collected after every operation.               *)
(*                                                                         *)
(* Property values are integers and strings.  A value is a record          *)
(* [k, v]: k is "int" or "str"; for a string, v >= 0 is the decimal text   *)
(* of v (a single digit) and v = NonNumeric is a text that int() rejects.  *)
(* Pheromone is kept in thousandths.                                       *)
(***************************************************************************)
EXTENDS Integers, Sequences, FiniteSets, TLC

VARIABLES heap, ents, edges, outgoing, incoming, colls, stats, xstats, ret,
          cache, clock

vars == <<heap, ents, edges, outgoing, incoming, colls, stats, xstats, ret, cache, clock>>

(***************************************************************************)
(* Bounds of the model.                                                    *)
(***************************************************************************)
MaxObjs == 3
MaxEdges == 3
MaxCount == 3
MaxDepth == 2
MaxRows == 2
MaxQueries == 3
MinEvaporable == 1000
MaxTrails == 2
MaxTime == 4
MaxRounds == 3
MaxCalls == 3
MaxSteps == 5
MaxLookups == 5
ColonyAnts == 2
ColonyRounds == 2
NumAnts == 1
NumIterations == 1

Ids == {"a", "b", "c"}
EdgeTypes == {"F", "L"}
CollNames == {"U", "V"}
GraphTypes == {"F"}
PropNames == {"p", "q"}
None == "None"
Unknown == "Unknown"
NonNumeric == -1

IntVal(n) == [k |-> "int", v |-> n]
StrVal(n) == [k |-> "str", v |-> n]
NoneVal == [k |-> "none", v |-> 0]
Values == {IntVal(1), IntVal(2), StrVal(1), StrVal(NonNumeric)}
Operators == {"=", "!=", "<", "<=", ">", ">="}

(***************************************************************************)
(* Program constants.                                                      *)
(***************************************************************************)
INITIAL_PHEROMONE == 1000
MIN_PHEROMONE == 100
MAX_PHEROMONE == 10000
EVAPORATION_RATE == 95

(***************************************************************************)
(* Finite maps (Python dict).                                              *)
(***************************************************************************)
EmptyMap == [x \in {} |-> x]
Put(f, k, v) == [x \in (DOMAIN f) \cup {k} |-> IF x = k THEN v ELSE f[x]]
Drop(f, k) == [x \in (DOMAIN f) \ {k} |-> f[x]]
Range(f) == {f[x] : x \in DOMAIN f}
SeqRange(s) == {s[i] : i \in 1..Len(s)}

Permutations3(S) == {s \in [1..Cardinality(S) -> S] : \A x \in S : \E i \in DOMAIN s : s[i] = x}

\* a set iterated in the order a ranking sequence ord gives its elements
InOrder(S, ord) == SelectSeq(ord, LAMBDA x : x \in S)

(***************************************************************************)
(* Entity (deed/core/entity.py).                                           *)
(***************************************************************************)
NewEntity(id, type, props) ==
  [id |-> id, type |-> type, props |-> props,
   out |-> [t \in EdgeTypes |-> {}], inn |-> [t \in EdgeTypes |-> {}]]

add_outgoing_edge(e, t, target) == [e EXCEPT !.out[t] = @ \cup {target}]
add_incoming_edge(e, t, source) == [e EXCEPT !.inn[t] = @ \cup {source}]

get_outgoing_neighbors(e, t) ==
  IF t # None THEN e.out[t] ELSE UNION {e.out[x] : x \in EdgeTypes}
get_incoming_neighbors(e, t) ==
  IF t # None THEN e.inn[t] ELSE UNION {e.inn[x] : x \in EdgeTypes}

has_property(e, p) == p \in DOMAIN e.props
set_property(e, key, value) == [e EXCEPT !.props = Put(@, key, value)]

(***************************************************************************)
(* Ordering of values and of (value, id) tuples as Python compares them.   *)
(***************************************************************************)
IdRank(i) == CASE i = "a" -> 1 [] i = "b" -> 2 [] i = "c" -> 3 [] OTHER -> 4

Comparable(x, y) == x.k = y.k

\* x < y for two values of one kind; text compares by characters, and a
\* digit sorts before a letter
ValLess(x, y) ==
  IF x.k = "int" THEN x.v < y.v
  ELSE IF x.v = NonNumeric THEN FALSE
  ELSE IF y.v = NonNumeric THEN TRUE
  ELSE x.v < y.v

\* tuple comparison (value, id) < (value', id'): the first differing
\* component decides; comparing values of two kinds raises TypeError
TupleRaises(x, y) == x[1] # y[1] /\ ~Comparable(x[1], y[1])
TupleLess(x, y) ==
  IF x[1] = y[1] THEN IdRank(x[2]) < IdRank(y[2]) ELSE ValLess(x[1], y[1])

(***************************************************************************)
(* Index (deed/core/collection.py).  An index is a record                  *)
(* [prop, vmap, sorted]: vmap maps a value to the set of ids stored under  *)
(* it (empty when the key is absent), sorted is the list of (value, id).   *)
(***************************************************************************)
NewIndex(p) == [prop |-> p, vmap |-> [v \in Values |-> {}], sorted |-> <<>>]

\* bisect.bisect_right: the insertion point, or -1 when a probe compares
\* values of two kinds (TypeError)
RECURSIVE bisect_right(_, _, _, _)
bisect_right(a, x, lo, hi) ==
  IF lo < hi
  THEN LET mid == (lo + hi) \div 2
       IN IF TupleRaises(x, a[mid + 1]) THEN -1
          ELSE IF TupleLess(x, a[mid + 1]) THEN bisect_right(a, x, lo, mid)
          ELSE bisect_right(a, x, mid + 1, hi)
  ELSE lo

InsertAt(a, pos, x) == SubSeq(a, 1, pos) \o <<x>> \o SubSeq(a, pos + 1, Len(a))

\* Index.insert: [idx, err]; the value map is updated before the ordered
\* list, so a TypeError in insort leaves the value map changed
IndexInsert(idx, e) ==
  IF ~has_property(e, idx.prop) THEN [idx |-> idx, err |-> FALSE]
  ELSE LET entry == <<e.props[idx.prop], e.id>>
           Insort(withMap, pos) ==
             IF pos = -1 THEN [idx |-> withMap, err |-> TRUE]
             ELSE [idx |-> [withMap EXCEPT !.sorted = InsertAt(@, pos, entry)],
                   err |-> FALSE]
       IN Insort([idx EXCEPT !.vmap[entry[1]] = @ \cup {e.id}],
                 bisect_right(idx.sorted, entry, 0, Len(idx.sorted)))

\* Index.remove: by the entity's current value of the property
IndexRemove(idx, e) ==
  IF ~has_property(e, idx.prop) THEN idx
  ELSE LET value == e.props[idx.prop]
       IN [idx EXCEPT !.vmap[value] = @ \ {e.id},
                      !.sorted = SelectSeq(@, LAMBDA t : ~(t[1] = value /\ t[2] = e.id))]

lookup_exact(idx, value) == idx.vmap[value]

\* Index.lookup_range: [err, ids]; lo and hi are values or NoneVal
RECURSIVE lookup_range_from(_, _, _, _, _)
lookup_range_from(idx, lo, hi, i, result) ==
  IF i > Len(idx.sorted) THEN [err |-> FALSE, ids |-> result]
  ELSE LET value == idx.sorted[i][1]
           eid == idx.sorted[i][2]
       IN IF lo # NoneVal /\ ~Comparable(value, lo) THEN [err |-> TRUE, ids |-> {}]
          ELSE IF lo # NoneVal /\ ValLess(value, lo)
               THEN lookup_range_from(idx, lo, hi, i + 1, result)
          ELSE IF hi # NoneVal /\ ~Comparable(value, hi) THEN [err |-> TRUE, ids |-> {}]
          ELSE IF hi # NoneVal /\ ValLess(hi, value) THEN [err |-> FALSE, ids |-> result]
          ELSE lookup_range_from(idx, lo, hi, i + 1, result \cup {eid})

lookup_range(idx, lo, hi) == lookup_range_from(idx, lo, hi, 1, {})

(***************************************************************************)
(* Collection (deed/core/collection.py).  A collection is a record         *)
(* [members, indexes, count]: members is the dict id -> Entity in          *)
(* insertion order, a sequence of <<id, object>>; indexes is the dict      *)
(* property -> Index in insertion order; count is stats['count'].          *)
(***************************************************************************)
NewCollection == [members |-> <<>>, indexes |-> <<>>, count |-> 0]

MemberIds(c) == {c.members[i][1] : i \in 1..Len(c.members)}
MemberObj(c, id) == (CHOOSE m \in SeqRange(c.members) : m[1] = id)[2]
IndexedProps(c) == {c.indexes[i].prop : i \in 1..Len(c.indexes)}
IndexOf(c, p) == CHOOSE x \in SeqRange(c.indexes) : x.prop = p

\* a dict assignment that appends even when the key is present
AppendMember(members, id, obj) == Append(members, <<id, obj>>)

\* dict assignment: an existing key keeps its place
PutMember(members, id, obj) ==
  IF \E i \in 1..Len(members) : members[i][1] = id
  THEN [i \in 1..Len(members) |-> IF members[i][1] = id THEN <<id, obj>> ELSE members[i]]
  ELSE Append(members, <<id, obj>>)

\* for index in self._indexes.values(): index.insert(entity), stopping at
\* the first index that raises
RECURSIVE InsertIntoIndexes(_, _, _)
InsertIntoIndexes(indexes, i, e) ==
  IF i > Len(indexes) THEN [indexes |-> indexes, err |-> FALSE]
  ELSE LET Step(r) ==
             IF r.err THEN [indexes |-> [indexes EXCEPT ![i] = r.idx], err |-> TRUE]
             ELSE InsertIntoIndexes([indexes EXCEPT ![i] = r.idx], i + 1, e)
       IN Step(IndexInsert(indexes[i], e))

\* Collection._update_stats (the count)
update_stats(c) == [c EXCEPT !.count = Len(c.members)]

\* a Collection.add_entity that leaves the entity's type as it is
add_entity_keeping_type(s, name, obj) ==
  LET Added(withMember, r) ==
        [s |-> [s EXCEPT !.colls[name] =
                            IF r.err THEN [withMember EXCEPT !.indexes = r.indexes]
                            ELSE update_stats([withMember EXCEPT !.indexes = r.indexes])],
         err |-> r.err]
  IN Added([s.colls[name] EXCEPT !.members = PutMember(@, s.heap[obj].id, obj)],
           InsertIntoIndexes(s.colls[name].indexes, 1, s.heap[obj]))

\* Collection.add_entity on the store state s: [s, err]
CollectionAddEntity(s, name, obj) ==
  LET Added(e, withMember, r) ==
        [s |-> [s EXCEPT !.heap[obj] = e,
                         !.colls[name] =
                            IF r.err THEN [withMember EXCEPT !.indexes = r.indexes]
                            ELSE update_stats([withMember EXCEPT !.indexes = r.indexes])],
         err |-> r.err]
  IN Added([s.heap[obj] EXCEPT !.type = name],
           [s.colls[name] EXCEPT !.members = PutMember(@, s.heap[obj].id, obj)],
           InsertIntoIndexes(s.colls[name].indexes, 1, [s.heap[obj] EXCEPT !.type = name]))

\* Collection.remove_entity on the store state s
CollectionRemoveEntity(s, name, id) ==
  LET c == s.colls[name]
  IN IF id \notin MemberIds(c) THEN s
     ELSE LET e == s.heap[MemberObj(c, id)]
              popped == SelectSeq(c.members, LAMBDA m : m[1] # id)
              idxs == [i \in 1..Len(c.indexes) |-> IndexRemove(c.indexes[i], e)]
          IN [s EXCEPT !.colls[name] =
                update_stats([c EXCEPT !.members = popped, !.indexes = idxs])]

\* the population loop of create_index: [idx, err]
RECURSIVE PopulateIndex(_, _, _, _)
PopulateIndex(idx, members, i, hp) ==
  IF i > Len(members) THEN [idx |-> idx, err |-> FALSE]
  ELSE LET Step(r) == IF r.err THEN r ELSE PopulateIndex(r.idx, members, i + 1, hp)
       IN Step(IndexInsert(idx, hp[members[i][2]]))

\* a create_index that registers the index and leaves it empty
register_index(c, p, hp) ==
  IF p \in IndexedProps(c) THEN [c |-> c, err |-> FALSE]
  ELSE [c |-> [c EXCEPT !.indexes = Append(@, NewIndex(p))], err |-> FALSE]

\* Collection.create_index: [c, err]; the index is registered before it is
\* populated
create_index(c, p, hp) ==
  IF p \in IndexedProps(c) THEN [c |-> c, err |-> FALSE]
  ELSE LET Registered(r) == [c |-> [c EXCEPT !.indexes = Append(@, r.idx)], err |-> r.err]
       IN Registered(PopulateIndex(NewIndex(p), c.members, 1, hp))

drop_index(c, p) == [c EXCEPT !.indexes = SelectSeq(@, LAMBDA x : x.prop # p)]

\* Collection.lookup: [c, err, ids]; value, lo, hi are values or NoneVal;
\* ids are the members the lookup returns
CollectionLookup(c, p, value, lo, hi, hp) ==
  LET Found(made, found) ==
        [c |-> made.c, err |-> found.err, ids |-> found.ids \cap MemberIds(made.c)]
      Look(idx) ==
        IF value # NoneVal THEN [err |-> FALSE, ids |-> lookup_exact(idx, value)]
        ELSE lookup_range(idx, lo, hi)
      Made(made) ==
        IF made.err THEN [c |-> made.c, err |-> TRUE, ids |-> {}]
        ELSE Found(made, Look(IndexOf(made.c, p)))
  IN Made(create_index(c, p, hp))

scan(c) == MemberIds(c)

(***************************************************************************)
(* DeedGraph (deed/core/graph.py).  The operations are functions of the    *)
(* store state s = [heap, ents, edges, outgoing, incoming, colls, stats]:  *)
(*   ents      _entities, id -> object                                     *)
(*   edges     _edges, edge id -> [src, tgt, type, pheromone]              *)
(*   outgoing  _outgoing, id -> (<<type, target>> -> edge id)              *)
(*   incoming  _incoming, id -> (<<type, source>> -> edge id)              *)
(*   colls     _collections, name -> collection                            *)
(***************************************************************************)
Store == [heap |-> heap, ents |-> ents, edges |-> edges, outgoing |-> outgoing,
          incoming |-> incoming, colls |-> colls, stats |-> stats]

InitStore == [heap |-> EmptyMap, ents |-> EmptyMap, edges |-> EmptyMap,
              outgoing |-> EmptyMap, incoming |-> EmptyMap, colls |-> EmptyMap,
              stats |-> [total_entities |-> 0, total_edges |-> 0, total_collections |-> 0]]

\* objects some table still refers to
Referenced(s) ==
  Range(s.ents) \cup
  UNION {{s.colls[n].members[i][2] : i \in 1..Len(s.colls[n].members)} : n \in DOMAIN s.colls}

\* reference counting frees an object no table refers to
Sweep(s) == [s EXCEPT !.heap = [o \in (DOMAIN @) \cap Referenced(s) |-> @[o]]]

\* Object numbers and edge ids (uuid4 strings) carry no meaning of their
\* own, so every state is kept under one numbering: objects in the order
\* of <<id, holder>> (the entity table first, then the one collection that
\* holds the object), edges in the order of their fields.
RECURSIVE LexLess(_, _)
LexLess(x, y) ==
  IF x = <<>> THEN FALSE
  ELSE IF Head(x) # Head(y) THEN Head(x) < Head(y)
  ELSE LexLess(Tail(x), Tail(y))

CollRank(n) == CASE n = "U" -> 1 [] n = "V" -> 2 [] OTHER -> 3
TypeRank(t) == CASE t = "F" -> 1 [] t = "L" -> 2 [] OTHER -> 3

ObjKey(s, o) ==
  LET id == s.heap[o].id
  IN IF id \in DOMAIN s.ents /\ s.ents[id] = o THEN <<IdRank(id), 0>>
     ELSE <<IdRank(id),
            CollRank(CHOOSE n \in DOMAIN s.colls : <<id, o>> \in SeqRange(s.colls[n].members))>>

EdgeKey(s, e) ==
  <<IdRank(s.edges[e].src), IdRank(s.edges[e].tgt), TypeRank(s.edges[e].type),
    s.edges[e].pheromone, IF \E x \in DOMAIN s.outgoing : e \in Range(s.outgoing[x]) THEN 0 ELSE 1,
    IF \E x \in DOMAIN s.incoming : e \in Range(s.incoming[x]) THEN 0 ELSE 1, e>>

Renumber(s) ==
  LET objNo == [o \in DOMAIN s.heap |->
                  1 + Cardinality({o2 \in DOMAIN s.heap : LexLess(ObjKey(s, o2), ObjKey(s, o))})]
      edgeNo == [e \in DOMAIN s.edges |->
                  1 + Cardinality({e2 \in DOMAIN s.edges : LexLess(EdgeKey(s, e2), EdgeKey(s, e))})]
      objOf == [n \in {objNo[o] : o \in DOMAIN s.heap} |-> CHOOSE o \in DOMAIN s.heap : objNo[o] = n]
      edgeOf == [n \in {edgeNo[e] : e \in DOMAIN s.edges} |-> CHOOSE e \in DOMAIN s.edges : edgeNo[e] = n]
      adj(d) == [x \in DOMAIN d |-> [k \in DOMAIN d[x] |->
                   IF d[x][k] \in DOMAIN s.edges THEN edgeNo[d[x][k]] ELSE 0]]
  IN [heap |-> [n \in DOMAIN objOf |-> s.heap[objOf[n]]],
      ents |-> [id \in DOMAIN s.ents |-> objNo[s.ents[id]]],
      edges |-> [n \in DOMAIN edgeOf |-> s.edges[edgeOf[n]]],
      outgoing |-> adj(s.outgoing),
      incoming |-> adj(s.incoming),
      colls |-> [c \in DOMAIN s.colls |->
                   [s.colls[c] EXCEPT !.members =
                      [i \in 1..Len(@) |-> <<@[i][1], objNo[@[i][2]]>>]]],
      stats |-> s.stats]

Collect(s) == Renumber(Sweep(s))

FreeObjs(s) == (1..MaxObjs) \ DOMAIN s.heap
NewObj(s) == CHOOSE o \in FreeObjs(s) : \A o2 \in FreeObjs(s) : o <= o2
FreeEdgeIds(s) == (1..MaxEdges) \ DOMAIN s.edges
NewEdgeId(s) == CHOOSE o \in FreeEdgeIds(s) : \A o2 \in FreeEdgeIds(s) : o <= o2

Entity(s, id) == s.heap[s.ents[id]]

\* DeedGraph.create_collection
create_collection(s, name) ==
  IF name \in DOMAIN s.colls THEN s
  ELSE [s EXCEPT !.colls = Put(@, name, NewCollection),
                 !.stats.total_collections = @ + 1]

\* DeedGraph.get_or_create_collection
get_or_create_collection(s, name) ==
  IF name \notin DOMAIN s.colls THEN create_collection(s, name) ELSE s

\* DeedGraph.add_entity: [s, err]; etype and cname are names or None, id
\* is the entity id (explicit or generated)
add_entity(s, etype, props, id, cname) ==
  LET type == IF etype # None THEN etype ELSE IF cname # None THEN cname ELSE Unknown
      obj == NewObj(s)
      s1 == [s EXCEPT !.heap = Put(@, obj, NewEntity(id, type, props)),
                      !.ents = Put(@, id, obj),
                      !.outgoing = Put(@, id, EmptyMap),
                      !.incoming = Put(@, id, EmptyMap)]
      Counted(r) ==
        IF r.err THEN r ELSE [s |-> [r.s EXCEPT !.stats.total_entities = @ + 1], err |-> FALSE]
  IN Counted(IF cname # None
             THEN CollectionAddEntity(get_or_create_collection(s1, cname), cname, obj)
             ELSE [s |-> s1, err |-> FALSE])

\* the loop over one adjacency directory of remove_entity: every edge the
\* directory names is popped from the edge table, and the entry of the
\* other endpoint keyed by the removed id is popped from the other
\* directory
RemoveNamed(mine, other, edgeTable, id) ==
  IF id \notin DOMAIN mine THEN [edges |-> edgeTable, other |-> other]
  ELSE LET keys == DOMAIN mine[id]
           named == {mine[id][k] : k \in keys}
       IN [edges |-> [e \in (DOMAIN edgeTable) \ named |-> edgeTable[e]],
           other |-> [x \in DOMAIN other |->
                        [k \in (DOMAIN other[x]) \ {<<kk[1], id>> : kk \in {k2 \in keys : k2[2] = x}}
                           |-> other[x][k]]]]

\* DeedGraph.remove_entity: [s, res]
remove_entity(s, id) ==
  IF id \notin DOMAIN s.ents THEN [s |-> s, res |-> FALSE]
  ELSE LET Removed(s1, o, i) ==
             [s |-> [s1 EXCEPT !.edges = i.edges,
                               !.outgoing = Drop(i.other, id),
                               !.incoming = Drop(o.other, id),
                               !.ents = Drop(@, id),
                               !.stats.total_entities = @ - 1],
              res |-> TRUE]
           Incoming(s1, o) == Removed(s1, o, RemoveNamed(o.other, s1.outgoing, o.edges, id))
           Outgoing(s1) == Incoming(s1, RemoveNamed(s1.outgoing, s1.incoming, s1.edges, id))
       IN Outgoing(IF Entity(s, id).type \in DOMAIN s.colls
                   THEN CollectionRemoveEntity(s, Entity(s, id).type, id) ELSE s)

\* an add_edge that records the edge without looking for its endpoints
add_edge_unchecked(s, src, tgt, t) ==
  [s |-> [s EXCEPT !.edges = Put(@, NewEdgeId(s),
                                 [src |-> src, tgt |-> tgt, type |-> t,
                                  pheromone |-> INITIAL_PHEROMONE]),
                   !.stats.total_edges = @ + 1],
   res |-> NewEdgeId(s)]

\* DeedGraph.add_edge: [s, res]; res is the new edge id, or 0 for None
add_edge(s, src, tgt, t) ==
  IF src \notin DOMAIN s.ents \/ tgt \notin DOMAIN s.ents THEN [s |-> s, res |-> 0]
  ELSE LET eid == NewEdgeId(s)
           edge == [src |-> src, tgt |-> tgt, type |-> t, pheromone |-> INITIAL_PHEROMONE]
           s1 == [s EXCEPT !.edges = Put(@, eid, edge),
                           !.outgoing[src] = Put(@, <<t, tgt>>, eid),
                           !.incoming[tgt] = Put(@, <<t, src>>, eid)]
           s2 == [s1 EXCEPT !.heap[s.ents[src]] = add_outgoing_edge(@, t, tgt)]
           s3 == [s2 EXCEPT !.heap[s.ents[tgt]] = add_incoming_edge(@, t, src)]
       IN [s |-> [s3 EXCEPT !.stats.total_edges = @ + 1], res |-> eid]

\* a get_edges_between that finds no edge
no_edges_between(s, src, tgt, t) == [err |-> FALSE, eids |-> {}]

\* DeedGraph.get_edges_between: [err, eids]; err is the KeyError of
\* self._edges[edge_id] for an id the edge table does not hold
get_edges_between(s, src, tgt, t) ==
  IF src \notin DOMAIN s.outgoing THEN [err |-> FALSE, eids |-> {}]
  ELSE LET keys == {k \in DOMAIN s.outgoing[src] : k[2] = tgt /\ (t = None \/ k[1] = t)}
           eids == {s.outgoing[src][k] : k \in keys}
       IN [err |-> ~(eids \subseteq DOMAIN s.edges), eids |-> eids \cap DOMAIN s.edges]

\* the loop of drop_collection over the ids that were members at the call
RECURSIVE RemoveAll(_, _, _)
RemoveAll(s, ids, i) ==
  IF i > Len(ids) THEN s ELSE RemoveAll(remove_entity(s, ids[i]).s, ids, i + 1)

\* DeedGraph.drop_collection: [s, res]
drop_collection(s, name) ==
  IF name \notin DOMAIN s.colls THEN [s |-> s, res |-> FALSE]
  ELSE LET ids == [i \in 1..Len(s.colls[name].members) |-> s.colls[name].members[i][1]]
           s1 == RemoveAll(s, ids, 1)
       IN [s |-> [s1 EXCEPT !.colls = Drop(@, name),
                            !.stats.total_collections = @ - 1],
           res |-> TRUE]

\* Edge.evaporate_pheromone
evaporate_pheromone(edge) ==
  LET decayed == (edge.pheromone * EVAPORATION_RATE) \div 100
  IN [edge EXCEPT !.pheromone = IF decayed > MIN_PHEROMONE THEN decayed ELSE MIN_PHEROMONE]

\* DeedGraph.evaporate_pheromones: the decay_rate argument is not used
evaporate_pheromones(s, decay_rate) ==
  [s EXCEPT !.edges = [e \in DOMAIN @ |-> evaporate_pheromone(@[e])]]

\* Edge.reinforce_pheromone
reinforce_pheromone(edge, amount) ==
  [edge EXCEPT !.pheromone = IF @ + amount < MAX_PHEROMONE THEN @ + amount ELSE MAX_PHEROMONE]

\* 1.0 / math.log(cost_ms + 2) in thousandths, for the costs the model draws
LogReinforcement(cost_ms) == CASE cost_ms = 1 -> 910 [] cost_ms = 100 -> 216

\* Edge.mark_traversed; the usage statistics it keeps (traversal_count,
\* last_traversed, avg_traversal_cost) are no part of the edge record
mark_traversed(edge, cost_ms) ==
  IF cost_ms > 0 THEN reinforce_pheromone(edge, LogReinforcement(cost_ms)) ELSE edge

(***************************************************************************)
(* Traversal (DeedGraph.traverse).  accept is the set of ids whose entity  *)
(* satisfies filter_fn (all ids when no filter is given); ord is the order *)
(* in which Python iterates a set of ids.  The result is [err, out]: out   *)
(* is the list of ids of the entities returned, err the KeyError of        *)
(* self._entities[current_id].                                             *)
(***************************************************************************)
Neighbors(e, t, direction) ==
  (IF direction \in {"out", "both"} THEN get_outgoing_neighbors(e, t) ELSE {}) \cup
  (IF direction \in {"in", "both"} THEN get_incoming_neighbors(e, t) ELSE {})

RECURSIVE TraverseLoop(_, _, _, _, _, _, _, _, _, _)
TraverseLoop(s, start, t, direction, max_depth, accept, ord, queue, visited, result) ==
  IF queue = <<>> THEN [err |-> FALSE, out |-> result]
  ELSE LET current == Head(queue)[1]
           depth == Head(queue)[2]
           rest == Tail(queue)
       IN IF current \in visited
          THEN TraverseLoop(s, start, t, direction, max_depth, accept, ord, rest, visited, result)
          ELSE IF current \notin DOMAIN s.ents THEN [err |-> TRUE, out |-> result]
          ELSE IF current \notin accept
          THEN TraverseLoop(s, start, t, direction, max_depth, accept, ord, rest,
                            visited \cup {current}, result)
          ELSE LET seen == visited \cup {current}
                   emitted == IF current # start THEN Append(result, current) ELSE result
                   nbrs == IF depth < max_depth
                           THEN InOrder(Neighbors(Entity(s, current), t, direction) \ seen, ord)
                           ELSE <<>>
                   pushed == [i \in 1..Len(nbrs) |-> <<nbrs[i], depth + 1>>]
               IN TraverseLoop(s, start, t, direction, max_depth, accept, ord,
                               rest \o pushed, seen, emitted)

traverse(s, start, t, direction, max_depth, accept, ord) ==
  IF start \notin DOMAIN s.ents THEN [err |-> FALSE, out |-> <<>>]
  ELSE TraverseLoop(s, start, t, direction, max_depth, accept, ord,
                    <<<<start, 0>>>>, {}, <<>>)

(***************************************************************************)
(* DeedGraph.get_strongest_path.  The queue holds [neg, path]; sorting it  *)
(* by neg with a stable sort and popping the head takes the first entry,   *)
(* in insertion order, among those of least neg.  The result is            *)
(* [err, found, path].                                                     *)
(***************************************************************************)
Last(path) == path[Len(path)]

FirstBest(queue) ==
  CHOOSE i \in 1..Len(queue) :
    /\ \A j \in 1..Len(queue) : queue[i].neg <= queue[j].neg
    /\ \A j \in 1..(i - 1) : queue[j].neg # queue[i].neg

RemoveAt(q, i) == SubSeq(q, 1, i - 1) \o SubSeq(q, i + 1, Len(q))

\* the entries appended for the neighbours nbrs[i..] of the path's end
RECURSIVE Expand(_, _, _, _, _, _)
Expand(s, t, neg, path, nbrs, i) ==
  IF i > Len(nbrs) THEN [err |-> FALSE, add |-> <<>>]
  ELSE LET between == get_edges_between(s, Last(path), nbrs[i], t)
           more == Expand(s, t, neg, path, nbrs, i + 1)
       IN IF between.err THEN [err |-> TRUE, add |-> <<>>]
          ELSE IF between.eids = {} THEN more
          ELSE LET eid == CHOOSE x \in between.eids : TRUE
                   entry == [neg |-> neg - s.edges[eid].pheromone,
                             path |-> Append(path, nbrs[i])]
               IN [err |-> more.err, add |-> <<entry>> \o more.add]

RECURSIVE PathLoop(_, _, _, _, _, _)
PathLoop(s, target, t, ord, queue, visited) ==
  IF queue = <<>> THEN [err |-> FALSE, found |-> FALSE, path |-> <<>>]
  ELSE LET i == FirstBest(queue)
           neg == queue[i].neg
           path == queue[i].path
           rest == RemoveAt(queue, i)
           current == Last(path)
       IN IF current = target THEN [err |-> FALSE, found |-> TRUE, path |-> path]
          ELSE IF current \in visited THEN PathLoop(s, target, t, ord, rest, visited)
          ELSE IF current \notin DOMAIN s.ents
          THEN [err |-> TRUE, found |-> FALSE, path |-> <<>>]
          ELSE LET seen == visited \cup {current}
                   nbrs == InOrder(get_outgoing_neighbors(Entity(s, current), t) \ seen, ord)
                   x == Expand(s, t, neg, path, nbrs, 1)
               IN IF x.err THEN [err |-> TRUE, found |-> FALSE, path |-> <<>>]
                  ELSE PathLoop(s, target, t, ord, rest \o x.add, seen)

get_strongest_path(s, source, target, t, ord) ==
  IF source \notin DOMAIN s.ents \/ target \notin DOMAIN s.ents
  THEN [err |-> FALSE, found |-> FALSE, path |-> <<>>]
  ELSE PathLoop(s, target, t, ord, <<[neg |-> 0, path |-> <<source>>]>>, {})

(***************************************************************************)
(* QueryExecutor (deed/query/executor.py).  A filter map sends a property  *)
(* to [op, val].  The plan the stigmergy cache or the ant-colony explorer  *)
(* hands to a select carries filter_order, a shuffle of the filter keys;   *)
(* the executor reads only its first entry, the argument first.            *)
(***************************************************************************)
Filter(op, val) == [op |-> op, val |-> val]

\* the coercion of a stored value toward the literal's type: [err, v];
\* int() of a text that is no number raises ValueError, str() never fails
Coerce(ev, lit) ==
  IF ev.k = lit.k THEN [err |-> FALSE, v |-> ev]
  ELSE IF lit.k = "int"
  THEN IF ev.v = NonNumeric THEN [err |-> TRUE, v |-> ev]
       ELSE [err |-> FALSE, v |-> IntVal(ev.v)]
  ELSE [err |-> FALSE, v |-> StrVal(ev.v)]

Compare(op, x, y) ==
  CASE op = "=" -> x = y
    [] op = "!=" -> x # y
    [] op = "<" -> ValLess(x, y)
    [] op = ">" -> ValLess(y, x)
    [] op = "<=" -> ~ValLess(y, x)
    [] op = ">=" -> ~ValLess(x, y)
    [] OTHER -> TRUE

\* the row-by-row test of _execute_select for one entity
RowMatches(e, filters) ==
  \A col \in DOMAIN filters :
    /\ col \in DOMAIN e.props
    /\ LET c == Coerce(e.props[col], filters[col].val)
       IN ~c.err /\ Compare(filters[col].op, c.v, filters[col].val)

\* the entities the select starts from: [c, err, ids]
Candidates(c, filters, first, hp) ==
  IF filters = EmptyMap \/ first \notin DOMAIN filters
  THEN [c |-> c, err |-> FALSE, ids |-> scan(c)]
  ELSE LET f == filters[first]
       IN IF f.op \in {"=", ">", "<"}
          THEN CollectionLookup(c, first,
                                IF f.op = "=" THEN f.val ELSE NoneVal,
                                IF f.op = ">" THEN f.val ELSE NoneVal,
                                IF f.op = "<" THEN f.val ELSE NoneVal, hp)
          ELSE [c |-> c, err |-> FALSE, ids |-> scan(c)]

\* QueryExecutor._execute_select with columns ['*'] and no limit:
\* [s, exc, rows]; exc is "" or the exception raised, rows the ids of the
\* entities returned
execute_select(s, cname, filters, first) ==
  IF cname \notin DOMAIN s.colls THEN [s |-> s, exc |-> "ValueError", rows |-> {}]
  ELSE LET Filtered(got) ==
             IF got.err
             THEN [s |-> [s EXCEPT !.colls[cname] = got.c], exc |-> "TypeError", rows |-> {}]
             ELSE [s |-> [s EXCEPT !.colls[cname] = got.c], exc |-> "",
                   rows |-> {id \in got.ids :
                               RowMatches(s.heap[MemberObj(got.c, id)], filters)}]
       IN Filtered(Candidates(s.colls[cname], filters, first, s.heap))

\* QueryExecutor._execute_insert for a collection and a value map
execute_insert(s, cname, values, id) == add_entity(s, None, values, id, cname)

RECURSIVE SetAll(_, _, _)
SetAll(e, updates, keys) ==
  IF keys = {} THEN e
  ELSE LET k == CHOOSE x \in keys : TRUE
       IN SetAll(set_property(e, k, updates[k]), updates, keys \ {k})

\* QueryExecutor._execute_update: [s, exc, rows]
execute_update(s, cname, filters, first, updates) ==
  LET Set(sel, objs) ==
        [s |-> [sel.s EXCEPT !.heap = [o \in DOMAIN @ |->
                  IF o \in objs THEN SetAll(@[o], updates, DOMAIN updates) ELSE @[o]]],
         exc |-> "", rows |-> sel.rows]
      Selected(sel) ==
        IF sel.exc # "" THEN sel
        ELSE Set(sel, {MemberObj(sel.s.colls[cname], id) : id \in sel.rows})
  IN Selected(execute_select(s, cname, filters, first))

IdList == <<"a", "b", "c">>

\* QueryExecutor._execute_delete: [s, exc, rows]
execute_delete(s, cname, filters, first) ==
  LET Selected(sel) ==
        IF sel.exc # "" THEN sel
        ELSE [s |-> RemoveAll(sel.s, InOrder(sel.rows, IdList), 1), exc |-> "",
              rows |-> sel.rows]
  IN Selected(execute_select(s, cname, filters, first))

\* QueryExecutor._execute_create_index: [s, err]
execute_create_index(s, cname, column) ==
  IF cname \notin DOMAIN s.colls THEN [s |-> s, err |-> FALSE]
  ELSE LET Created(r) == [s |-> [s EXCEPT !.colls[cname] = r.c], err |-> r.err]
       IN Created(create_index(s.colls[cname], column, s.heap))

\* all(e.get_property(k) == v for k, v in props.items())
HasProps(e, props) ==
  \A k \in DOMAIN props : k \in DOMAIN e.props /\ e.props[k] = props[k]

\* the candidates for a pattern's first node, as objects
StartEntities(s, label, props) ==
  LET all == IF label # None
             THEN IF label \in DOMAIN s.colls
                  THEN {m[2] : m \in SeqRange(s.colls[label].members)} ELSE {}
             ELSE Range(s.ents)
  IN {o \in all : HasProps(s.heap[o], props)}

\* one start entity of a one-edge pattern: [err, bound, pair]
Bind(s, o, t, direction, label, props, ord) ==
  LET First(kept) ==
        IF kept = <<>> THEN [err |-> FALSE, bound |-> FALSE, pair |-> <<>>]
        ELSE [err |-> FALSE, bound |-> TRUE, pair |-> <<s.heap[o].id, kept[1]>>]
      Traversed(tr) ==
        IF tr.err THEN [err |-> TRUE, bound |-> FALSE, pair |-> <<>>]
        ELSE First(SelectSeq(tr.out, LAMBDA id :
                      /\ label = None \/ Entity(s, id).type = label
                      /\ HasProps(Entity(s, id), props)))
  IN Traversed(traverse(s, s.heap[o].id, t, direction, 1, Ids, ord))

\* QueryExecutor._execute_graph_pattern for the pattern
\* (u:label {props})-[:t]->(f:tlabel {tprops}) with no WHERE and no LIMIT:
\* [err, bindings], a binding being the pair <<u, f>> of ids
execute_graph_pattern(s, label, props, t, direction, tlabel, tprops, ord) ==
  LET per == [o \in StartEntities(s, label, props) |->
                Bind(s, o, t, direction, tlabel, tprops, ord)]
  IN [err |-> \E o \in DOMAIN per : per[o].err,
      bindings |-> {per[o].pair : o \in {x \in DOMAIN per : per[x].bound}}]

(***************************************************************************)
(* PheromoneTrail and StigmergyCache (deed/algorithms/stigmergy.py).       *)
(* A query is a record [operation, collection, filters, joins,             *)
(* traversals], a plan a record [operation, filter_order].  sha256 is      *)
(* taken to be injective on the texts hashed here, so a signature is the   *)
(* hashed value itself.  A cache is [trails, stats]: trails is the dict    *)
(* signature -> list of trails in insertion order, a sequence of           *)
(* [sig, list].  Execution times are whole milliseconds, pheromone is in   *)
(* thousandths, the clock (datetime.now) counts minutes.                   *)
(***************************************************************************)
TRAIL_INITIAL == 1000
TRAIL_MAX == 10000
TRAIL_MIN == 100
PRUNE_BELOW == 200
CACHE_EVAPORATION == 5
STALENESS_MINUTES == 60

Min2(a, b) == IF a < b THEN a ELSE b
Max2(a, b) == IF a > b THEN a ELSE b

PropOrder == <<"p", "q">>
\* sorted(keys)
SortedKeys(S) == SelectSeq(PropOrder, LAMBDA k : k \in S)

Query(operation, collection, filters) ==
  [operation |-> operation, collection |-> collection, filters |-> filters,
   joins |-> <<>>, traversals |-> <<>>]

Plan(operation, filter_order) == [operation |-> operation, filter_order |-> filter_order]
NoPlan == Plan("", <<>>)

\* PheromoneTrail(query_signature, path_signature, execution_plan,
\*                avg_execution_time_ms)
NewTrail(qsig, psig, plan, t, now) ==
  [query_signature |-> qsig, path_signature |-> psig, pheromone |-> TRAIL_INITIAL,
   avg_execution_time_ms |-> t, success_count |-> 0, failure_count |-> 0,
   last_used |-> now, execution_plan |-> plan]

\* a reinforcement that does not cap the pheromone
reinforce_uncapped(trail, t, success, now) ==
  [trail EXCEPT !.pheromone = IF success THEN @ + (100000 \div (100 + t)) ELSE (@ * 8) \div 10,
                !.last_used = now]

\* PheromoneTrail.reinforce
reinforce(trail, t, success, now) ==
  IF success
  THEN [trail EXCEPT !.success_count = @ + 1,
                     !.avg_execution_time_ms = IF @ = 0 THEN t ELSE (3 * t + 7 * @) \div 10,
                     !.pheromone = Min2(@ + (100000 \div (100 + t)), TRAIL_MAX),
                     !.last_used = now]
  ELSE [trail EXCEPT !.failure_count = @ + 1,
                     !.pheromone = Max2((@ * 8) \div 10, TRAIL_MIN),
                     !.last_used = now]

\* PheromoneTrail.evaporate; decay_rate in percent
evaporate(trail, decay_rate) ==
  [trail EXCEPT !.pheromone = Max2((@ * (100 - decay_rate)) \div 100, TRAIL_MIN)]

\* PheromoneTrail.is_stale
is_stale(trail, max_age_minutes, now) == now - trail.last_used > max_age_minutes

\* PheromoneTrail.quality_score, as the fraction num / den (times 100)
quality_score(trail) ==
  LET uses == trail.success_count + trail.failure_count
  IN IF uses = 0 THEN [num |-> 0, den |-> 1]
     ELSE [num |-> trail.pheromone * trail.success_count,
           den |-> uses * (100 + trail.avg_execution_time_ms)]

QualityLess(a, b) ==
  quality_score(a).num * quality_score(b).den < quality_score(b).num * quality_score(a).den

NewCache ==
  [trails |-> <<>>,
   stats |-> [total_trails |-> 0, total_reinforcements |-> 0,
              cache_hits |-> 0, cache_misses |-> 0]]

\* a signature that hashes the filters with their literals
signature_with_literals(query) ==
  [operation |-> query.operation, collection |-> query.collection,
   filters |-> query.filters, joins |-> query.joins, traversals |-> query.traversals]

\* StigmergyCache.get_query_signature
get_query_signature(query) ==
  [operation |-> query.operation, collection |-> query.collection,
   filters |-> SortedKeys(DOMAIN query.filters),
   joins |-> query.joins, traversals |-> query.traversals]

\* StigmergyCache.get_path_signature
get_path_signature(execution_plan) == execution_plan

Signatures(c) == {c.trails[i].sig : i \in 1..Len(c.trails)}
SlotOf(c, sig) == CHOOSE i \in 1..Len(c.trails) : c.trails[i].sig = sig
TrailsOf(c, sig) == IF sig \in Signatures(c) THEN c.trails[SlotOf(c, sig)].list ELSE <<>>

\* all trails, in the order of the dict and of its lists
RECURSIVE AllTrails(_, _)
AllTrails(trails, i) ==
  IF i > Len(trails) THEN <<>> ELSE trails[i].list \o AllTrails(trails, i + 1)

TotalTrails(c) == Len(AllTrails(c.trails, 1))

Held(c) == SeqRange(AllTrails(c.trails, 1))
\* a trail's pattern fingerprint and plan fingerprint
Pair(t) == <<t.query_signature, t.path_signature>>

\* del self._trails[sig] for every signature whose list is empty
DeleteEmpty(trails) == SelectSeq(trails, LAMBDA e : e.list # <<>>)

\* list.sort(key=quality_score): a stable sort, so the head of the sorted
\* list is the first of the entries of least quality
FirstWorst(ts) ==
  CHOOSE i \in 1..Len(ts) :
    /\ \A j \in 1..Len(ts) : ~QualityLess(ts[j], ts[i])
    /\ \A j \in 1..(i - 1) : QualityLess(ts[i], ts[j])

\* list.sort(key=quality_score, reverse=True): stable as well
FirstFinest(ts) ==
  CHOOSE i \in 1..Len(ts) :
    /\ \A j \in 1..Len(ts) : ~QualityLess(ts[i], ts[j])
    /\ \A j \in 1..(i - 1) : QualityLess(ts[j], ts[i])

RECURSIVE SortAscending(_)
SortAscending(ts) ==
  IF ts = <<>> THEN <<>>
  ELSE <<ts[FirstWorst(ts)]>> \o SortAscending(RemoveAt(ts, FirstWorst(ts)))

RECURSIVE SortDescending(_)
SortDescending(ts) ==
  IF ts = <<>> THEN <<>>
  ELSE <<ts[FirstFinest(ts)]>> \o SortDescending(RemoveAt(ts, FirstFinest(ts)))

\* list.remove(trail): the first element equal to trail leaves the list
ListRemove(list, trail) ==
  RemoveAt(list, CHOOSE i \in 1..Len(list) :
                    list[i] = trail /\ \A j \in 1..(i - 1) : list[j] # trail)

\* the loop of _enforce_capacity over the first n entries of the sorted list
RECURSIVE EvictLoop(_, _, _, _)
EvictLoop(trails, sorted, i, n) ==
  IF i > n THEN trails
  ELSE LET sig == sorted[i].query_signature
           slot == CHOOSE k \in 1..Len(trails) : trails[k].sig = sig
           removed == [trails EXCEPT ![slot].list = ListRemove(@, sorted[i])]
       IN EvictLoop(DeleteEmpty(removed), sorted, i + 1, n)

\* a cache that never evicts
keep_all(c, max_trails) == c

\* a cache that evicts its oldest entries, whatever their quality
evict_oldest(c, max_trails) ==
  IF TotalTrails(c) <= max_trails THEN c
  ELSE [c EXCEPT !.trails = EvictLoop(@, AllTrails(@, 1), 1, TotalTrails(c) - max_trails),
                 !.stats.total_trails = max_trails]

\* StigmergyCache._enforce_capacity
enforce_capacity(c, max_trails) ==
  IF TotalTrails(c) <= max_trails THEN c
  ELSE [c EXCEPT !.trails = EvictLoop(@, SortAscending(AllTrails(@, 1)), 1,
                                      TotalTrails(c) - max_trails),
                 !.stats.total_trails = max_trails]

\* a lookup that keeps the stale trails
lookup_unfiltered(c, query, now) ==
  IF get_query_signature(query) \notin Signatures(c)
  THEN [c |-> [c EXCEPT !.stats.cache_misses = @ + 1], out |-> <<>>]
  ELSE [c |-> [c EXCEPT !.stats.cache_hits = @ + 1],
        out |-> SortDescending(TrailsOf(c, get_query_signature(query)))]

\* StigmergyCache.lookup: [c, out]
lookup(c, query, now) ==
  IF get_query_signature(query) \notin Signatures(c)
  THEN [c |-> [c EXCEPT !.stats.cache_misses = @ + 1], out |-> <<>>]
  ELSE [c |-> [c EXCEPT !.stats.cache_hits = @ + 1],
        out |-> SortDescending(SelectSeq(TrailsOf(c, get_query_signature(query)),
                                         LAMBDA t : ~is_stale(t, STALENESS_MINUTES, now)))]

\* an add_trail that lays a new trail without looking for the pair
add_trail_anew(c, query, execution_plan, t, success, now, max_trails) ==
  LET query_sig == get_query_signature(query)
      path_sig == get_path_signature(execution_plan)
      entered == IF query_sig \in Signatures(c) THEN c.trails
                 ELSE Append(c.trails, [sig |-> query_sig, list |-> <<>>])
      slot == CHOOSE k \in 1..Len(entered) : entered[k].sig = query_sig
      trail == reinforce(NewTrail(query_sig, path_sig, execution_plan, t, now), t, success, now)
  IN [c |-> enforce_capacity(
              [c EXCEPT !.trails = [entered EXCEPT ![slot].list = Append(@, trail)],
                        !.stats.total_trails = @ + 1], max_trails),
      trail |-> trail]

\* an evaporate_all that prunes nothing
evaporate_only(c, evaporation_rate) ==
  [c EXCEPT !.trails = [i \in 1..Len(@) |->
      [@[i] EXCEPT !.list = [k \in 1..Len(@) |-> evaporate(@[k], evaporation_rate)]]]]

\* StigmergyCache.add_trail: [c, trail]
add_trail(c, query, execution_plan, t, success, now, max_trails) ==
  LET query_sig == get_query_signature(query)
      path_sig == get_path_signature(execution_plan)
      existing == TrailsOf(c, query_sig)
      \* existing_trails = self._trails[query_sig] enters the signature
      entered == IF query_sig \in Signatures(c) THEN c.trails
                 ELSE Append(c.trails, [sig |-> query_sig, list |-> <<>>])
      slot == CHOOSE k \in 1..Len(entered) : entered[k].sig = query_sig
  IN IF \E i \in 1..Len(existing) : existing[i].path_signature = path_sig
     THEN LET i == CHOOSE k \in 1..Len(existing) :
                     /\ existing[k].path_signature = path_sig
                     /\ \A j \in 1..(k - 1) : existing[j].path_signature # path_sig
              trail == reinforce(existing[i], t, success, now)
          IN [c |-> [c EXCEPT !.trails[slot].list[i] = trail,
                              !.stats.total_reinforcements = @ + 1],
              trail |-> trail]
     ELSE LET trail == reinforce(NewTrail(query_sig, path_sig, execution_plan, t, now),
                                 t, success, now)
          IN [c |-> enforce_capacity(
                      [c EXCEPT !.trails = [entered EXCEPT ![slot].list = Append(@, trail)],
                                !.stats.total_trails = @ + 1], max_trails),
              trail |-> trail]

\* a pruning that leaves the statistics as they are
prune_uncounted(c, min_pheromone) ==
  [c EXCEPT !.trails = DeleteEmpty([i \in 1..Len(c.trails) |->
      [c.trails[i] EXCEPT !.list = SelectSeq(@, LAMBDA t : t.pheromone >= min_pheromone)]])]

\* StigmergyCache._prune_weak_trails
prune_weak_trails(c, min_pheromone) ==
  LET kept == DeleteEmpty([i \in 1..Len(c.trails) |->
                 [c.trails[i] EXCEPT !.list = SelectSeq(@, LAMBDA t : t.pheromone >= min_pheromone)]])
  IN [c EXCEPT !.trails = kept, !.stats.total_trails = Len(AllTrails(kept, 1))]

\* StigmergyCache.evaporate_all
evaporate_all(c, evaporation_rate) ==
  prune_weak_trails(
    [c EXCEPT !.trails = [i \in 1..Len(@) |->
        [@[i] EXCEPT !.list = [k \in 1..Len(@) |-> evaporate(@[k], evaporation_rate)]]]],
    PRUNE_BELOW)

\* StigmergyCache.get_best_plan: [c, plan]; plan is NoPlan for None
get_best_plan(c, query, now) ==
  LET Best(r) == [c |-> r.c, plan |-> IF r.out = <<>> THEN NoPlan ELSE r.out[1].execution_plan]
  IN Best(lookup(c, query, now))

(***************************************************************************)
(* AntColonyOptimizer (deed/algorithms/ant_colony.py) and the select of    *)
(* an executor built with use_optimization, num_ants = NumAnts and         *)
(* num_iterations = NumIterations.  A statement has no joins, indexed      *)
(* properties or traversals, so an ant's plan is [operation,               *)
(* filter_order]; order is the shuffle of the filter keys (the statements  *)
(* of the model have at most one filter, so every ant draws the same).     *)
(***************************************************************************)
\* QueryAnt._estimate_cost, without the random factor of 0.9 to 1.1 that
\* multiplies it: a plan whose operation is 'select' costs 0.0
estimate_cost(plan) ==
  CASE plan.operation = "scan" -> 100
    [] plan.operation = "lookup" -> 10
    [] plan.operation = "traverse" -> 50
    [] OTHER -> 0

\* QueryAnt.explore: [c, plan]; the ant looks the query up and follows the
\* best trail (whose plan _vary_plan leaves as it is) or shuffles
explore(c, query, order, now) ==
  [c |-> lookup(c, query, now).c, plan |-> Plan(query.operation, order)]

RECURSIVE DeployAnts(_, _, _, _, _)
DeployAnts(c, query, order, now, n) ==
  IF n = 0 THEN c ELSE DeployAnts(explore(c, query, order, now).c, query, order, now, n - 1)

\* the top fifth of an iteration's ants deposit: add_trail with the
\* estimated cost as the execution time
RECURSIVE Deposit(_, _, _, _, _, _)
Deposit(c, query, plan, now, max_trails, n) ==
  IF n = 0 THEN c
  ELSE Deposit(add_trail(c, query, plan, estimate_cost(plan), TRUE, now, max_trails).c,
               query, plan, now, max_trails, n - 1)

RECURSIVE Iterate(_, _, _, _, _, _)
Iterate(c, query, order, now, max_trails, i) ==
  IF i = 0 THEN c
  ELSE Iterate(Deposit(DeployAnts(c, query, order, now, NumAnts), query,
                       Plan(query.operation, order), now, max_trails,
                       Max2(1, NumAnts \div 5)),
               query, order, now, max_trails, i - 1)

\* AntColonyOptimizer.optimize: [c, plan]
optimize(c, query, order, now, max_trails) ==
  [c |-> Iterate(c, query, order, now, max_trails, NumIterations),
   plan |-> Plan(query.operation, order)]

\* QueryExecutor._execute_select with use_optimization:
\* [s, c, exc, rows, hit]; t is the time the select takes
select_optimized(s, c, cname, filters, order, t, now, max_trails) ==
  IF cname \notin DOMAIN s.colls
  THEN [s |-> s, c |-> c, exc |-> "ValueError", rows |-> {}, hit |-> FALSE]
  ELSE LET query == Query("select", cname, filters)
           Ran(planned, hit, r) ==
             [s |-> r.s,
              c |-> IF r.exc = "" /\ planned.plan # NoPlan
                    THEN add_trail(planned.c, query, planned.plan, t, TRUE, now, max_trails).c
                    ELSE planned.c,
              exc |-> r.exc, rows |-> r.rows, hit |-> hit]
           First(plan) ==
             IF filters # EmptyMap /\ plan.filter_order # <<>> THEN plan.filter_order[1]
             ELSE None
           Planned(planned, hit) ==
             Ran(planned, hit, execute_select(s, cname, filters, First(planned.plan)))
           Best(best) ==
             IF best.plan # NoPlan THEN Planned(best, TRUE)
             ELSE Planned(optimize(best.c, query, order, now, max_trails), FALSE)
       IN Best(get_best_plan(c, query, now))

\* an execute that runs every plan as a select, on a collection it makes
\* when it does not find it
execute_creating(s, c, plan, order, t, now, max_trails) ==
  select_optimized(get_or_create_collection(s, plan.collection), c, plan.collection,
                   plan.filters, order, t, now, max_trails)

\* QueryExecutor._execute_update and _execute_delete with use_optimization:
\* the select they run goes through the cache, under the signature of a
\* select on the collection and the filter keys
update_optimized(s, c, cname, filters, order, updates, t, now, max_trails) ==
  LET Set(sel, objs) ==
        [sel EXCEPT !.s.heap = [o \in DOMAIN @ |->
                       IF o \in objs THEN SetAll(@[o], updates, DOMAIN updates) ELSE @[o]]]
      Selected(sel) ==
        IF sel.exc # "" THEN sel
        ELSE Set(sel, {MemberObj(sel.s.colls[cname], id) : id \in sel.rows})
  IN Selected(select_optimized(s, c, cname, filters, order, t, now, max_trails))

delete_optimized(s, c, cname, filters, order, t, now, max_trails) ==
  LET Selected(sel) ==
        IF sel.exc # "" THEN sel
        ELSE [sel EXCEPT !.s = RemoveAll(sel.s, InOrder(sel.rows, IdList), 1)]
  IN Selected(select_optimized(s, c, cname, filters, order, t, now, max_trails))

\* QueryExecutor._execute_select on a plan without a collection: the
\* pattern (u)-[:F]->(f) is matched by _execute_graph_pattern, which does
\* not use the cache; rows are the ids bound to u
pattern_matched(s, c) ==
  LET Matched(r) ==
        [s |-> s, c |-> c, exc |-> IF r.err THEN "KeyError" ELSE "",
         rows |-> {pair[1] : pair \in r.bindings}, hit |-> FALSE]
  IN Matched(execute_graph_pattern(s, None, EmptyMap, "F", "out", None, EmptyMap, IdList))

\* QueryExecutor.execute on a plan [operation, collection, filters,
\* updates] of an executor with use_optimization: [s, c, exc, rows, hit];
\* a plan without a collection has the collection None
execute(s, c, plan, order, t, now, max_trails) ==
  CASE plan.operation \in {"select", "match"} /\ plan.collection = None ->
         pattern_matched(s, c)
    [] plan.operation \in {"select", "match"} ->
         select_optimized(s, c, plan.collection, plan.filters, order, t, now, max_trails)
    [] plan.operation = "update" ->
         update_optimized(s, c, plan.collection, plan.filters, order, plan.updates, t, now,
                          max_trails)
    [] plan.operation = "delete" ->
         delete_optimized(s, c, plan.collection, plan.filters, order, t, now, max_trails)
    [] OTHER -> [s |-> s, c |-> c, exc |-> "ValueError", rows |-> {}, hit |-> FALSE]

(***************************************************************************)
(* The state machine.  Every operation is one action: it applies the       *)
(* operation to the store, collects unreferenced objects and records in    *)
(* ret what was called and what it returned:                               *)
(*   op    the operation      args  its arguments (of a call that took     *)
(*                                  effect)                                *)
(*   ok    a boolean result   err   whether it raised                      *)
(*   out   a list result (ids)      rows  a set result                     *)
(***************************************************************************)
Commit(s) ==
  \E c \in {Collect(s)} :
     /\ heap' = c.heap
     /\ ents' = c.ents
     /\ edges' = c.edges
     /\ outgoing' = c.outgoing
     /\ incoming' = c.incoming
     /\ colls' = c.colls
     /\ stats' = c.stats

Ret(op, args, ok, err, out, rows) ==
  [op |-> op, args |-> args, ok |-> ok, err |-> err, out |-> out, rows |-> rows]

StoreVars == <<heap, ents, edges, outgoing, incoming, colls, stats>>

Init ==
  /\ heap = InitStore.heap
  /\ ents = InitStore.ents
  /\ edges = InitStore.edges
  /\ outgoing = InitStore.outgoing
  /\ incoming = InitStore.incoming
  /\ colls = InitStore.colls
  /\ stats = InitStore.stats
  /\ xstats = [total_queries |-> 0]
  /\ ret = Ret("init", <<>>, FALSE, FALSE, <<>>, {})
  /\ cache = NewCache
  /\ clock = 0

Orders == Permutations3(Ids)

\* uuid4 yields an id that nothing in the store has ever held: of the ids
\* no table, edge or neighbour set mentions, the model takes the least
Mentioned(s) ==
  DOMAIN s.ents \cup DOMAIN s.outgoing \cup DOMAIN s.incoming
  \cup {s.edges[e].src : e \in DOMAIN s.edges} \cup {s.edges[e].tgt : e \in DOMAIN s.edges}
  \cup UNION {{k[2] : k \in DOMAIN s.outgoing[x]} : x \in DOMAIN s.outgoing}
  \cup UNION {{k[2] : k \in DOMAIN s.incoming[x]} : x \in DOMAIN s.incoming}
  \cup UNION {MemberIds(s.colls[n]) : n \in DOMAIN s.colls}
  \cup {s.heap[o].id : o \in DOMAIN s.heap}
  \cup UNION {UNION {UNION {x.vmap[v] : v \in DOMAIN x.vmap}
                       \cup {x.sorted[i][2] : i \in 1..Len(x.sorted)} :
                     x \in SeqRange(s.colls[n].indexes)} : n \in DOMAIN s.colls}
  \cup UNION {UNION {s.heap[o].out[t] \cup s.heap[o].inn[t] : t \in EdgeTypes} : o \in DOMAIN s.heap}

HasNewId(s) == Ids \ Mentioned(s) # {}
NewId(s) == CHOOSE i \in Ids \ Mentioned(s) : \A j \in Ids \ Mentioned(s) : IdRank(i) <= IdRank(j)

\* store.add_entity(), no collection, no properties, generated id
AddEntity ==
  \E cname \in {None} :
    /\ FreeObjs(Store) # {}
    /\ HasNewId(Store)
    /\ stats.total_entities < MaxCount
    /\ \E r \in {add_entity(Store, None, EmptyMap, NewId(Store), cname)} :
          /\ Commit(r.s)
          /\ ret' = Ret("add_entity", <<NewId(Store), cname>>, TRUE, r.err, <<>>, {})
          /\ UNCHANGED <<xstats, cache, clock>>

\* store.add_edge(src, tgt, t)
AddEdge ==
  \E src \in Ids, tgt \in Ids, t \in GraphTypes :
    /\ FreeEdgeIds(Store) # {}
    /\ stats.total_edges < MaxCount
    /\ \E r \in {add_edge(Store, src, tgt, t)} :
          /\ Commit(r.s)
          /\ ret' = Ret("add_edge", IF r.res # 0 THEN <<src, tgt, t>> ELSE <<>>, r.res # 0, FALSE, <<>>, {})
          /\ UNCHANGED <<xstats, cache, clock>>

\* store.remove_entity(id)
RemoveEntity ==
  \E id \in Ids :
    \E r \in {remove_entity(Store, id)} :
       /\ Commit(r.s)
       /\ ret' = Ret("remove_entity", IF r.res THEN <<id>> ELSE <<>>, r.res, FALSE, <<>>, {})
       /\ UNCHANGED <<xstats, cache, clock>>

\* store.drop_collection(name)
DropCollection ==
  \E name \in CollNames :
    \E r \in {drop_collection(Store, name)} :
       /\ Commit(r.s)
       /\ ret' = Ret("drop_collection", <<name>>, r.res, FALSE, <<>>, {})
       /\ UNCHANGED <<xstats, cache, clock>>

\* store.evaporate_pheromones()
Evaporate ==
  /\ edges # EmptyMap
  /\ \A e \in DOMAIN edges : edges[e].pheromone >= MinEvaporable
  /\ Commit(evaporate_pheromones(Store, None))
  /\ ret' = Ret("evaporate_pheromones", <<>>, TRUE, FALSE, <<>>, {})
  /\ UNCHANGED <<xstats, cache, clock>>

GraphNext ==
  \/ AddEntity
  \/ AddEdge
  \/ RemoveEntity
  \/ Evaporate

GraphSpec == Init /\ [][GraphNext]_vars

(***************************************************************************)
(* The query executor over one collection.  Rows are inserted with         *)
(* generated ids; a statement's filters are drawn from StatementFilters,   *)
(* the plan's first filter from the filter keys.  The executor runs with   *)
(* use_optimization = False here: the cache and the clock stay as they     *)
(* are (OptSpec has the executor with the cache).                          *)
(***************************************************************************)
ExecColls == {"U"}
StoredValues == {IntVal(1), IntVal(2), StrVal(1)}
PropMaps(S) == UNION {[D -> S] : D \in SUBSET PropNames}
\* an inserted row has p, any stored value, and may have q = 1
InsertValues ==
  {m \in PropMaps(StoredValues) : "p" \in DOMAIN m /\ ("q" \in DOMAIN m => m["q"] = IntVal(1))}
UpdateMaps == {[x \in {"p"} |-> v] : v \in StoredValues}
\* '=' and '>' are pushed into an index lookup, '!=' scans
StatementOps == {"=", ">", "!="}
OneFilter(ops) == {[x \in {p} |-> Filter(op, v)] : p \in PropNames, op \in ops, v \in Values}
StatementFilters == {EmptyMap} \cup OneFilter(StatementOps)
Firsts(filters) == IF filters = EmptyMap THEN {None} ELSE DOMAIN filters

\* QueryExecutor.execute counts the statements that returned
Executed(returned) ==
  /\ xstats' = IF returned THEN [xstats EXCEPT !.total_queries = @ + 1] ELSE xstats
  /\ UNCHANGED <<cache, clock>>

\* execute({'operation': 'insert', 'collection': cname, 'values': values})
Insert ==
  /\ xstats.total_queries < MaxQueries
  /\ \E cname \in ExecColls, values \in InsertValues :
    /\ FreeObjs(Store) # {}
    /\ HasNewId(Store)
    /\ Cardinality(DOMAIN ents) < MaxRows
    /\ \E r \in {execute_insert(Store, cname, values, NewId(Store))} :
          /\ Commit(r.s)
          /\ Executed(~r.err)
          /\ ret' = Ret("insert", <<>>, ~r.err, r.err, <<>>, {})

\* execute({'operation': 'create_index', 'collection': cname, 'column': column})
CreateIndex ==
  /\ xstats.total_queries < MaxQueries
  /\ \E cname \in ExecColls, column \in PropNames :
    \E r \in {execute_create_index(Store, cname, column)} :
       /\ Commit(r.s)
       /\ Executed(~r.err)
       /\ ret' = Ret("create_index", <<>>, ~r.err, r.err, <<>>, {})

\* execute({'operation': 'select', 'collection': cname, 'filters': filters})
Select ==
  /\ xstats.total_queries < MaxQueries
  /\ \E cname \in ExecColls, filters \in StatementFilters :
    \E first \in Firsts(filters) :
      \E r \in {execute_select(Store, cname, filters, first)} :
         /\ Commit(r.s)
         /\ Executed(r.exc = "")
         /\ ret' = Ret("select", <<>>, r.exc = "", r.exc # "", <<>>, {})

\* execute({'operation': 'update', ..., 'updates': updates})
Update ==
  /\ xstats.total_queries < MaxQueries
  /\ \E cname \in ExecColls, filters \in StatementFilters, updates \in UpdateMaps :
    \E first \in Firsts(filters) :
      \E r \in {execute_update(Store, cname, filters, first, updates)} :
         /\ Commit(r.s)
         /\ Executed(r.exc = "")
         /\ ret' = Ret("update", <<>>, r.exc = "", r.exc # "", <<>>, {})

\* execute({'operation': 'delete', 'collection': cname, 'filters': filters})
Delete ==
  /\ xstats.total_queries < MaxQueries
  /\ \E cname \in ExecColls, filters \in StatementFilters :
    \E first \in Firsts(filters) :
      \E r \in {execute_delete(Store, cname, filters, first)} :
         /\ Commit(r.s)
         /\ Executed(r.exc = "")
         /\ ret' = Ret("delete", <<>>, r.exc = "", r.exc # "", <<>>, r.rows)

ExecNext ==
  \/ Insert
  \/ CreateIndex
  \/ Select
  \/ Update
  \/ Delete

ExecSpec == Init /\ [][ExecNext]_vars

(***************************************************************************)
(* The stigmergy cache on its own: a cache of capacity MaxTrails whose     *)
(* embedder calls it once a minute, until MaxTime.                         *)
(***************************************************************************)
CacheQueries ==
  {Query("select", "U", [x \in K |-> Filter("=", IntVal(1))]) : K \in {{"p"}, {"q"}}}
CachePlans == {Plan("select", <<k>>) : k \in PropNames}
Latencies == {0, 100}

\* cache.add_trail(query, plan, t, success); the result is told together
\* with the trails that left the cache during the call
AddTrail ==
  /\ clock < MaxTime
  /\ \E query \in CacheQueries, plan \in CachePlans, t \in Latencies, success \in BOOLEAN :
       \E r \in {add_trail(cache, query, plan, t, success, clock, MaxTrails)} :
          /\ cache' = r.c
          /\ ret' = Ret("add_trail",
                        <<r.trail, (SeqRange(AllTrails(cache.trails, 1)) \cup {r.trail})
                                     \ SeqRange(AllTrails(r.c.trails, 1))>>,
                        TRUE, FALSE, <<>>, {})
          /\ clock' = clock + 1
          /\ UNCHANGED <<StoreVars, xstats>>

\* cache.evaporate_all()
EvaporateAll ==
  /\ clock < MaxTime
  /\ cache' = evaporate_all(cache, CACHE_EVAPORATION)
  /\ ret' = Ret("evaporate_all", <<>>, TRUE, FALSE, <<>>, {})
  /\ clock' = clock + 1
  /\ UNCHANGED <<StoreVars, xstats>>

CacheNext ==
  \/ AddTrail
  \/ EvaporateAll

CacheSpec == Init /\ [][CacheNext]_vars

(***************************************************************************)
(* Pheromone on one edge and one trail.  A step is an operation called n   *)
(* times in a row, so that few steps take the pheromone to either end of   *)
(* its range; a step takes a minute, until MaxRounds.                      *)
(***************************************************************************)
Costs == {0, 1, 100}
Repeats == {1, 12}
Decays == {1, 45}
TheQuery == Query("select", "U", EmptyMap)
ThePlan == Plan("select", <<>>)

RECURSIVE MarkedTimes(_, _, _)
MarkedTimes(edge, cost_ms, n) ==
  IF n = 0 THEN edge ELSE MarkedTimes(mark_traversed(edge, cost_ms), cost_ms, n - 1)

RECURSIVE EvaporatedTimes(_, _)
EvaporatedTimes(s, n) ==
  IF n = 0 \/ s.edges = EmptyMap THEN s
  ELSE EvaporatedTimes(evaporate_pheromones(s, None), n - 1)

RECURSIVE AddedTimes(_, _, _, _, _)
AddedTimes(c, t, success, now, n) ==
  IF n = 0 THEN c
  ELSE AddedTimes(add_trail(c, TheQuery, ThePlan, t, success, now, MaxTrails).c,
                  t, success, now, n - 1)

RECURSIVE EvaporatedAllTimes(_, _)
EvaporatedAllTimes(c, n) ==
  IF n = 0 \/ c.trails = <<>> THEN c
  ELSE EvaporatedAllTimes(evaporate_all(c, CACHE_EVAPORATION), n - 1)

\* store.add_entity(), the first entity
AddOneEntity ==
  /\ ents = EmptyMap
  /\ \E r \in {add_entity(Store, None, EmptyMap, NewId(Store), None)} :
        /\ Commit(r.s)
        /\ ret' = Ret("add_entity", <<>>, TRUE, r.err, <<>>, {})
        /\ UNCHANGED <<xstats, cache, clock>>

\* store.add_edge(src, src, 'F'), the first edge
AddOneEdge ==
  /\ edges = EmptyMap
  /\ \E src \in DOMAIN ents :
       \E r \in {add_edge(Store, src, src, "F")} :
          /\ Commit(r.s)
          /\ ret' = Ret("add_edge", <<>>, r.res # 0, FALSE, <<>>, {})
          /\ UNCHANGED <<xstats, cache, clock>>

\* edge.mark_traversed(cost_ms), n times
MarkTraversed ==
  /\ clock < MaxRounds
  /\ \E e \in DOMAIN edges, cost_ms \in Costs, n \in Repeats :
        /\ Commit([Store EXCEPT !.edges[e] = MarkedTimes(@, cost_ms, n)])
        /\ ret' = Ret("mark_traversed", <<>>, TRUE, FALSE, <<>>, {})
        /\ clock' = clock + 1
        /\ UNCHANGED <<xstats, cache>>

\* store.evaporate_pheromones(), n times
EvaporatePheromones ==
  /\ clock < MaxRounds
  /\ edges # EmptyMap
  /\ \E n \in Decays :
        /\ Commit(EvaporatedTimes(Store, n))
        /\ ret' = Ret("evaporate_pheromones", <<>>, TRUE, FALSE, <<>>, {})
        /\ clock' = clock + 1
        /\ UNCHANGED <<xstats, cache>>

\* cache.add_trail(query, plan, t, success), n times
AddTrailTimes ==
  /\ clock < MaxRounds
  /\ \E t \in Latencies, success \in BOOLEAN, n \in Repeats :
        /\ cache' = AddedTimes(cache, t, success, clock, n)
        /\ ret' = Ret("add_trail", <<>>, TRUE, FALSE, <<>>, {})
        /\ clock' = clock + 1
        /\ UNCHANGED <<StoreVars, xstats>>

\* cache.evaporate_all(), n times
EvaporateAllTimes ==
  /\ clock < MaxRounds
  /\ cache.trails # <<>>
  /\ \E n \in Decays :
        /\ cache' = EvaporatedAllTimes(cache, n)
        /\ ret' = Ret("evaporate_all", <<>>, TRUE, FALSE, <<>>, {})
        /\ clock' = clock + 1
        /\ UNCHANGED <<StoreVars, xstats>>

PheromoneNext ==
  \/ AddOneEntity
  \/ AddOneEdge
  \/ MarkTraversed
  \/ EvaporatePheromones
  \/ AddTrailTimes
  \/ EvaporateAllTimes

PheromoneSpec == Init /\ [][PheromoneNext]_vars

(***************************************************************************)
(* The store and its collections: entities are added with an entity type,  *)
(* a collection name and an id of the caller's choice (an id uuid4         *)
(* generates is an id the store does not hold), indexes are created,       *)
(* dropped and looked up on the collections the store has.  The callers    *)
(* make one call a minute, until MaxCalls.                                 *)
(***************************************************************************)
CollIds == {"a", "b"}
\* <<entity_type, collection_name>> of an add_entity
Targets == {<<None, "U">>, <<"V", "U">>, <<None, None>>}
\* the properties of an entity: one property, p of either kind or q
CollProps ==
  {m \in PropMaps(StoredValues) :
     Cardinality(DOMAIN m) = 1 /\ ("q" \in DOMAIN m => m["q"] = IntVal(1))}
\* the arguments of a lookup: a value, or the bounds of a range
LookupArg(value, lo, hi) == [value |-> value, lo |-> lo, hi |-> hi]
LookupArgs ==
  {LookupArg(v, NoneVal, NoneVal) : v \in StoredValues}
  \cup {LookupArg(NoneVal, lo, hi) : lo \in {NoneVal, IntVal(1)}, hi \in {NoneVal, IntVal(1)}}
\* the lookups the callers make
CalledLookups ==
  {LookupArg(IntVal(1), NoneVal, NoneVal), LookupArg(NoneVal, IntVal(1), NoneVal)}

\* store.add_entity(entity_type, properties, entity_id, collection_name)
StoreAddEntity ==
  /\ clock < MaxCalls
  /\ \E target \in Targets, props \in CollProps, id \in CollIds :
    /\ FreeObjs(Store) # {}
    /\ id \in DOMAIN ents \/ Cardinality(DOMAIN ents) < MaxRows
    /\ stats.total_entities < MaxCount
    /\ \E r \in {add_entity(Store, target[1], props, id, target[2])} :
          /\ Commit(r.s)
          /\ ret' = Ret("add_entity", <<target[1], target[2], id, props>>,
                        ~r.err, r.err, <<>>, {})
          /\ clock' = clock + 1
          /\ UNCHANGED <<xstats, cache>>

\* store.remove_entity(id), of an entity the store holds
StoreRemoveEntity ==
  /\ clock < MaxCalls
  /\ \E id \in DOMAIN ents :
       \E r \in {remove_entity(Store, id)} :
          /\ Commit(r.s)
          /\ ret' = Ret("remove_entity", <<>>, r.res, FALSE, <<>>, {})
          /\ clock' = clock + 1
          /\ UNCHANGED <<xstats, cache>>

\* store.get_collection(cname).create_index(p)
CollCreateIndex ==
  /\ clock < MaxCalls
  /\ \E cname \in DOMAIN colls, p \in PropNames :
    \E r \in {create_index(colls[cname], p, heap)} :
       /\ Commit([Store EXCEPT !.colls[cname] = r.c])
       /\ ret' = Ret("create_index",
                     [cname |-> cname, p |-> p, had |-> p \in IndexedProps(colls[cname])],
                     ~r.err, r.err, <<>>, {})
       /\ clock' = clock + 1
       /\ UNCHANGED <<xstats, cache>>

\* store.get_collection(cname).drop_index(p)
CollDropIndex ==
  /\ clock < MaxCalls
  /\ \E cname \in DOMAIN colls, p \in PropNames :
    /\ Commit([Store EXCEPT !.colls[cname] = drop_index(@, p)])
    /\ ret' = Ret("drop_index", <<>>, TRUE, FALSE, <<>>, {})
    /\ clock' = clock + 1
    /\ UNCHANGED <<xstats, cache>>

\* store.get_collection(cname).lookup(p, value, min_value, max_value)
CollLookup ==
  /\ clock < MaxCalls
  /\ \E cname \in DOMAIN colls, p \in PropNames, a \in CalledLookups :
    \E r \in {CollectionLookup(colls[cname], p, a.value, a.lo, a.hi, heap)} :
       /\ Commit([Store EXCEPT !.colls[cname] = r.c])
       /\ ret' = Ret("lookup", <<>>, ~r.err, r.err, <<>>, {})
       /\ clock' = clock + 1
       /\ UNCHANGED <<xstats, cache>>

CollNext ==
  \/ StoreAddEntity
  \/ StoreRemoveEntity
  \/ CollCreateIndex
  \/ CollDropIndex
  \/ CollLookup

CollSpec == Init /\ [][CollNext]_vars

(***************************************************************************)
(* The executor with optimization: rows are inserted and selects run, all  *)
(* within a minute (no trail goes stale, nothing evaporates).  ret.args    *)
(* records the statement's signature, whether the cache held a trail under *)
(* it when the select began, and whether the select was a cache hit.  The  *)
(* cache's count of lookups bounds the run.                                *)
(***************************************************************************)
OptFilters ==
  {EmptyMap} \cup {[x \in {p} |-> Filter(op, v)] :
                     p \in PropNames, op \in {"=", ">"}, v \in {IntVal(1), StrVal(1)}}

SelectOptimized ==
  /\ cache.stats.cache_hits + cache.stats.cache_misses < MaxLookups
  /\ \E cname \in ExecColls, filters \in OptFilters, t \in Latencies :
       \E r \in {select_optimized(Store, cache, cname, filters,
                                  SortedKeys(DOMAIN filters), t, clock, MaxTrails)} :
          /\ Commit(r.s)
          /\ cache' = r.c
          /\ xstats' = IF r.exc = "" THEN [xstats EXCEPT !.total_queries = @ + 1] ELSE xstats
          /\ ret' = Ret("select",
                        [sig |-> get_query_signature(Query("select", cname, filters)),
                         had |-> TrailsOf(cache, get_query_signature(Query("select", cname, filters))) # <<>>,
                         hit |-> r.hit],
                        r.exc = "", r.exc # "", <<>>, {})
          /\ UNCHANGED clock

OptNext ==
  \/ Insert
  \/ SelectOptimized

OptSpec == Init /\ [][OptNext]_vars

(***************************************************************************)
(* The fingerprint of a query, taken of two queries at a time: the         *)
(* queries differ in their operation, collection, filter keys and filter   *)
(* literals.  ret.args holds the two queries, ret.out their signatures.    *)
(***************************************************************************)
SignedFilters ==
  {EmptyMap}
  \cup {[x \in {p} |-> Filter(op, v)] :
          p \in PropNames, op \in {"=", ">"}, v \in {IntVal(1), StrVal(1)}}
  \cup {[x \in PropNames |-> Filter("=", IF x = "p" THEN v ELSE w)] :
          v \in {IntVal(1), IntVal(2)}, w \in {IntVal(1), StrVal(1)}}
SignedQueries ==
  {Query(operation, cname, filters) :
     operation \in {"select", "delete"}, cname \in ExecColls, filters \in SignedFilters}

\* cache.get_query_signature(q1) and cache.get_query_signature(q2)
Sign ==
  \E q1 \in SignedQueries, q2 \in SignedQueries :
    /\ ret' = Ret("get_query_signature", <<q1, q2>>, TRUE, FALSE,
                  <<get_query_signature(q1), get_query_signature(q2)>>, {})
    /\ UNCHANGED <<StoreVars, xstats, cache, clock>>

SignNext == Sign

SignSpec == Init /\ [][SignNext]_vars

(***************************************************************************)
(* The executor's dispatch: rows are inserted into U, and plans of known   *)
(* and unknown operations are executed on U and on V, a collection that    *)
(* is never made, and a match plan, which has no collection.  ret.args     *)
(* records the plan's operation and collection, whether the store had the  *)
(* collection when the call began, and the signature of the query that     *)
(* the select of the plan hands to the cache.                              *)
(***************************************************************************)
\* the operations QueryExecutor.execute dispatches on
KnownOperations ==
  {"select", "match", "insert", "create", "update", "delete", "create_table", "create_index"}
DispatchOps == {"select", "update", "delete", "merge"}
DispatchColls == {"U", "V"}
DispatchFilters == {EmptyMap, [x \in {"p"} |-> Filter("=", IntVal(1))]}
DispatchPlans ==
  {[operation |-> operation, collection |-> cname, filters |-> filters,
    updates |-> [x \in {"p"} |-> IntVal(2)]] :
     operation \in DispatchOps, cname \in DispatchColls, filters \in DispatchFilters}
  \cup {[operation |-> "match", collection |-> None, filters |-> EmptyMap,
         updates |-> EmptyMap]}

\* executor.execute(plan)
Execute ==
  /\ xstats.total_queries < MaxQueries
  /\ cache.stats.cache_hits + cache.stats.cache_misses < MaxLookups
  /\ \E plan \in DispatchPlans, t \in {0} :
       \E r \in {execute(Store, cache, plan, SortedKeys(DOMAIN plan.filters), t, clock,
                         MaxTrails)} :
          /\ Commit(r.s)
          /\ cache' = r.c
          /\ xstats' = IF r.exc = "" THEN [xstats EXCEPT !.total_queries = @ + 1] ELSE xstats
          /\ ret' = Ret("execute",
                        [operation |-> plan.operation, collection |-> plan.collection,
                         known |-> plan.collection \in DOMAIN colls,
                         sig |-> get_query_signature(
                                   Query(IF plan.operation = "match" THEN "match"
                                         ELSE "select", plan.collection, plan.filters))],
                        r.exc = "", r.exc # "", <<>>, {})
          /\ UNCHANGED clock

DispatchNext ==
  \/ Insert
  \/ Execute

DispatchSpec == Init /\ [][DispatchNext]_vars

(***************************************************************************)
(* The store with collections and edges: entities are added with           *)
(* generated ids, into a collection or into none, edges are added between  *)
(* them, and collections are dropped.                                      *)
(***************************************************************************)
\* store.add_entity(collection_name = cname), no properties
AddMember ==
  \E cname \in {None, "U"} :
    /\ FreeObjs(Store) # {}
    /\ HasNewId(Store)
    /\ stats.total_entities < MaxCount
    /\ \E r \in {add_entity(Store, None, EmptyMap, NewId(Store), cname)} :
          /\ Commit(r.s)
          /\ ret' = Ret("add_entity", <<NewId(Store), cname>>, ~r.err, r.err, <<>>, {})
          /\ UNCHANGED <<xstats, cache, clock>>

DropNext ==
  \/ AddMember
  \/ AddEdge
  \/ DropCollection

DropSpec == Init /\ [][DropNext]_vars

(***************************************************************************)
(* The store as a graph, one call a minute until MaxSteps: entities are    *)
(* added with generated ids and removed, and edges are added between any   *)
(* two ids, of entities the store holds or not.  ret.args records what     *)
(* the call was given.                                                     *)
(***************************************************************************)
\* store.add_entity()
LinkEntity ==
  /\ clock < MaxSteps
  /\ FreeObjs(Store) # {}
  /\ HasNewId(Store)
  /\ stats.total_entities < MaxCount
  /\ \E r \in {add_entity(Store, None, EmptyMap, NewId(Store), None)} :
        /\ Commit(r.s)
        /\ ret' = Ret("add_entity", <<NewId(Store)>>, ~r.err, r.err, <<>>, {})
        /\ clock' = clock + 1
        /\ UNCHANGED <<xstats, cache>>

\* store.add_edge(src, tgt, t)
LinkEdge ==
  /\ clock < MaxSteps
  /\ FreeEdgeIds(Store) # {}
  /\ stats.total_edges < MaxCount
  /\ \E src \in Ids, tgt \in Ids, t \in EdgeTypes :
       \E r \in {add_edge(Store, src, tgt, t)} :
          /\ Commit(r.s)
          /\ ret' = Ret("add_edge", <<src, tgt, t>>, r.res # 0, FALSE, <<>>, {})
          /\ clock' = clock + 1
          /\ UNCHANGED <<xstats, cache>>

\* store.remove_entity(id)
Unlink ==
  /\ clock < MaxSteps
  /\ \E id \in DOMAIN ents :
       \E r \in {remove_entity(Store, id)} :
          /\ Commit(r.s)
          /\ ret' = Ret("remove_entity", <<id>>, r.res, FALSE, <<>>, {})
          /\ clock' = clock + 1
          /\ UNCHANGED <<xstats, cache>>

LinkNext ==
  \/ LinkEntity
  \/ LinkEdge
  \/ Unlink

LinkSpec == Init /\ [][LinkNext]_vars

(***************************************************************************)
(* A cache built with the defaults, StigmergyCache(), whose trails grow    *)
(* old: trails are laid, time passes in waits of about a staleness window, *)
(* and the cache is asked for the trails and for the best plan of a        *)
(* query.  Calls take no time on the minute clock; calls and waits         *)
(* together number MaxTime at most.                                        *)
(***************************************************************************)
DEFAULT_MAX_TRAILS == 10000

Waits == {STALENESS_MINUTES, STALENESS_MINUTES + 1}

\* the reinforcements of the trails the cache holds
RECURSIVE Uses(_)
Uses(ts) ==
  IF ts = <<>> THEN 0
  ELSE ts[1].success_count + ts[1].failure_count + Uses(Tail(ts))

\* the calls made and the waits passed
Elapsed ==
  Uses(AllTrails(cache.trails, 1)) + cache.stats.cache_hits + cache.stats.cache_misses
    + clock \div STALENESS_MINUTES

\* cache.add_trail(query, plan, 0.0, success)
LayTrail ==
  /\ Elapsed < MaxTime
  /\ \E query \in CacheQueries, plan \in CachePlans, t \in {0}, success \in BOOLEAN :
       \E r \in {add_trail(cache, query, plan, t, success, clock, DEFAULT_MAX_TRAILS)} :
          /\ cache' = r.c
          /\ ret' = Ret("add_trail", <<r.trail>>, TRUE, FALSE, <<>>, {})
          /\ UNCHANGED <<StoreVars, xstats, clock>>

\* datetime.now() moves on between two calls
Elapse ==
  /\ Elapsed < MaxTime
  /\ \E d \in Waits : clock' = clock + d
  /\ ret' = Ret("elapse", <<>>, TRUE, FALSE, <<>>, {})
  /\ UNCHANGED <<StoreVars, xstats, cache>>

\* cache.lookup(query)
Lookup ==
  /\ Elapsed < MaxTime
  /\ \E query \in CacheQueries :
       \E r \in {lookup(cache, query, clock)} :
          /\ cache' = r.c
          /\ ret' = Ret("lookup", [query |-> query], TRUE, FALSE, r.out, {})
          /\ UNCHANGED <<StoreVars, xstats, clock>>

\* cache.get_best_plan(query); ok tells that a plan, not None, came back
GetBestPlan ==
  /\ Elapsed < MaxTime
  /\ \E query \in CacheQueries :
       \E r \in {get_best_plan(cache, query, clock)} :
          /\ cache' = r.c
          /\ ret' = Ret("get_best_plan", [query |-> query], r.plan # NoPlan, FALSE,
                        <<r.plan>>, {})
          /\ UNCHANGED <<StoreVars, xstats, clock>>

RecallNext ==
  \/ LayTrail
  \/ Elapse
  \/ Lookup
  \/ GetBestPlan

RecallSpec == Init /\ [][RecallNext]_vars

(***************************************************************************)
(* A cache of MaxTrails trails whose trails wear out: a trail is used      *)
(* once, with success or failure, or fails several times in a row, and     *)
(* the cache evaporates.  One step a minute, until MaxTime.                *)
(***************************************************************************)
Wears == {6, 12}
WornPlan == Plan("select", <<"p">>)

RECURSIVE FailedTimes(_, _, _, _)
FailedTimes(c, query, now, n) ==
  IF n = 0 THEN c
  ELSE FailedTimes(add_trail(c, query, WornPlan, 0, FALSE, now, MaxTrails).c, query, now, n - 1)

\* cache.add_trail(query, plan, 0.0, success)
TrailUsed ==
  /\ clock < MaxTime
  /\ \E query \in CacheQueries, plan \in CachePlans, success \in BOOLEAN :
       \E r \in {add_trail(cache, query, plan, 0, success, clock, MaxTrails)} :
          /\ cache' = r.c
          /\ ret' = Ret("add_trail", [query |-> query, plan |-> plan, success |-> success,
                                      trail |-> r.trail], TRUE, FALSE, <<>>, {})
          /\ clock' = clock + 1
          /\ UNCHANGED <<StoreVars, xstats>>

\* cache.add_trail(query, plan, 0.0, False), n times
TrailWorn ==
  /\ clock < MaxTime
  /\ \E query \in CacheQueries, n \in Wears :
        /\ cache' = FailedTimes(cache, query, clock, n)
        /\ ret' = Ret("add_trail_times", [query |-> query, n |-> n], TRUE, FALSE, <<>>, {})
        /\ clock' = clock + 1
        /\ UNCHANGED <<StoreVars, xstats>>

\* cache.evaporate_all(); the trails that left the cache are told with it
Evaporated ==
  /\ clock < MaxTime
  /\ cache' = evaporate_all(cache, CACHE_EVAPORATION)
  /\ ret' = Ret("evaporate_all",
                [pruned |-> {t \in Held(cache) : Pair(t) \notin {Pair(u) : u \in Held(cache')}}],
                TRUE, FALSE, <<>>, {})
  /\ clock' = clock + 1
  /\ UNCHANGED <<StoreVars, xstats>>

FadeNext ==
  \/ TrailUsed
  \/ TrailWorn
  \/ Evaporated

FadeSpec == Init /\ [][FadeNext]_vars

(***************************************************************************)
(* The optimizer on its own: AntColonyOptimizer(num_ants = ColonyAnts,     *)
(* num_iterations = ColonyRounds) with an empty cache optimizes a scan     *)
(* with two filters.  What an ant draws at random is an input: the order   *)
(* of the filters in its plan and the factor, between 0.9 and 1.1, that    *)
(* multiplies its estimated cost (here one of the two ends, in percent).   *)
(* An ant that follows the best trail takes a plan that an earlier ant     *)
(* drew, which _vary_plan leaves as it is, so the drawn orders cover it.   *)
(* draws[i][a] is the draw of ant a in iteration i.                        *)
(***************************************************************************)
Factors == {90, 110}
ColonyOrders == {<<"p", "q">>, <<"q", "p">>}
ColonyDraws == [order : ColonyOrders, factor : Factors]
ColonyQuery == Query("scan", "U", [x \in PropNames |-> Filter("=", IntVal(1))])

\* QueryAnt.explore with its draw: [c, plan, cost]
explore_drawn(c, query, draw, now) ==
  [c |-> lookup(c, query, now).c,
   plan |-> Plan(query.operation, draw.order),
   cost |-> (estimate_cost(Plan(query.operation, draw.order)) * draw.factor) \div 100]

\* iteration_plans.sort(key = cost): a stable sort
FirstCheapest(ps) ==
  CHOOSE i \in 1..Len(ps) :
    /\ \A j \in 1..Len(ps) : ps[i].cost <= ps[j].cost
    /\ \A j \in 1..(i - 1) : ps[j].cost > ps[i].cost

RECURSIVE SortByCost(_)
SortByCost(ps) ==
  IF ps = <<>> THEN <<>>
  ELSE <<ps[FirstCheapest(ps)]>> \o SortByCost(RemoveAt(ps, FirstCheapest(ps)))

\* the ants of one iteration: acc is [c, best_plan, best_cost, plans];
\* best_plan is NoPlan while best_cost is float('inf')
RECURSIVE DeployDrawn(_, _, _, _, _)
DeployDrawn(acc, query, row, now, a) ==
  IF a > Len(row) THEN acc
  ELSE LET Tracked(e) ==
             [c |-> e.c,
              best_plan |-> IF acc.best_plan = NoPlan \/ e.cost < acc.best_cost
                            THEN e.plan ELSE acc.best_plan,
              best_cost |-> IF acc.best_plan = NoPlan \/ e.cost < acc.best_cost
                            THEN e.cost ELSE acc.best_cost,
              plans |-> Append(acc.plans, [plan |-> e.plan, cost |-> e.cost])]
       IN DeployDrawn(Tracked(explore_drawn(acc.c, query, row[a], now)), query, row, now, a + 1)

\* for plan, cost in iteration_plans[:top_count]: add_trail
RECURSIVE DepositTop(_, _, _, _, _, _, _)
DepositTop(c, query, sorted, now, max_trails, k, top_count) ==
  IF k > top_count THEN c
  ELSE DepositTop(add_trail(c, query, sorted[k].plan, sorted[k].cost, TRUE, now, max_trails).c,
                  query, sorted, now, max_trails, k + 1, top_count)

\* an optimize that keeps the best plan of the iteration at hand only
RECURSIVE optimize_by_last_iteration(_, _, _, _, _, _)
optimize_by_last_iteration(acc, query, draws, now, max_trails, i) ==
  IF i > Len(draws) THEN acc
  ELSE LET Reinforced(d) ==
             [d EXCEPT !.c = DepositTop(d.c, query, SortByCost(d.plans), now, max_trails, 1,
                                        Max2(1, Len(draws[i]) \div 5)),
                       !.plans = <<>>]
       IN optimize_by_last_iteration(
            Reinforced(DeployDrawn([acc EXCEPT !.best_plan = NoPlan], query, draws[i], now, 1)),
            query, draws, now, max_trails, i + 1)

\* AntColonyOptimizer.optimize from iteration i on: [c, best_plan,
\* best_cost, plans], plans being the iteration_plans
RECURSIVE optimize_drawn(_, _, _, _, _, _)
optimize_drawn(acc, query, draws, now, max_trails, i) ==
  IF i > Len(draws) THEN acc
  ELSE LET Reinforced(d) ==
             [d EXCEPT !.c = DepositTop(d.c, query, SortByCost(d.plans), now, max_trails, 1,
                                        Max2(1, Len(draws[i]) \div 5)),
                       !.plans = <<>>]
       IN optimize_drawn(Reinforced(DeployDrawn(acc, query, draws[i], now, 1)),
                         query, draws, now, max_trails, i + 1)

\* optimizer.optimize(query, graph_stats), once
Optimize ==
  /\ cache = NewCache
  /\ \E draws \in [1..ColonyRounds -> [1..ColonyAnts -> ColonyDraws]] :
       \E r \in {optimize_drawn([c |-> cache, best_plan |-> NoPlan, best_cost |-> 0,
                                  plans |-> <<>>],
                                 ColonyQuery, draws, clock, DEFAULT_MAX_TRAILS, 1)} :
          /\ cache' = r.c
          /\ ret' = Ret("optimize", [query |-> ColonyQuery, draws |-> draws], TRUE, FALSE,
                        <<r.best_plan, r.best_cost>>, {})
          /\ UNCHANGED <<StoreVars, xstats, clock>>

ColonyNext == Optimize

ColonySpec == Init /\ [][ColonyNext]_vars

(***************************************************************************)
(* Evaporation at a rate the caller supplies: one edge is traversed and    *)
(* the store evaporates with decay_rate given in percent.                  *)
(***************************************************************************)
DecayRates == {5, 50}

\* store.evaporate_pheromones(decay_rate = r)
EvaporateAtRate ==
  /\ clock < MaxRounds
  /\ edges # EmptyMap
  /\ \E r \in DecayRates :
        /\ Commit(evaporate_pheromones(Store, r))
        /\ ret' = Ret("evaporate_pheromones", [decay_rate |-> r], TRUE, FALSE, <<>>, {})
        /\ clock' = clock + 1
        /\ UNCHANGED <<xstats, cache>>

DecayNext ==
  \/ AddOneEntity
  \/ AddOneEdge
  \/ MarkTraversed
  \/ AddTrailTimes
  \/ EvaporateAtRate

DecaySpec == Init /\ [][DecayNext]_vars

(***************************************************************************)
(* The loops of traverse and get_strongest_path, an iteration a step, on   *)
(* the store as MaxSteps calls of LinkSpec have left it (with cycles,      *)
(* self-loops, edges both ways, and neighbour sets that name removed       *)
(* entities).  While a call runs, ret.args holds its arguments and its     *)
(* local variables (queue, visited), ret.out its result so far; ord is     *)
(* the order in which Python iterates a set of ids.  One call is made,     *)
(* with edge_type None: edges of every type are followed.  A running loop  *)
(* goes on: the fairness of WalkLive.                                      *)
(***************************************************************************)
Directions == {"out", "in", "both"}

\* an iteration that queues every neighbour, visited or not, and puts a
\* visited entry back at the end of the queue instead of dropping it
traverse_step_requeueing(s, w, out) ==
  IF w.queue = <<>> THEN [w |-> [w EXCEPT !.running = FALSE], out |-> out, err |-> FALSE]
  ELSE LET current == Head(w.queue)[1]
           depth == Head(w.queue)[2]
           rest == Tail(w.queue)
       IN IF current \in w.visited
          THEN [w |-> [w EXCEPT !.queue = Append(rest, Head(w.queue))], out |-> out,
                err |-> FALSE]
          ELSE IF current \notin DOMAIN s.ents
          THEN [w |-> [w EXCEPT !.queue = rest, !.visited = @ \cup {current},
                                !.running = FALSE],
                out |-> out, err |-> TRUE]
          ELSE LET seen == w.visited \cup {current}
                   nbrs == IF depth < w.max_depth
                           THEN InOrder(Neighbors(Entity(s, current), w.t, w.direction), w.ord)
                           ELSE <<>>
                   pushed == [k \in 1..Len(nbrs) |-> <<nbrs[k], depth + 1>>]
               IN [w |-> [w EXCEPT !.queue = rest \o pushed, !.visited = seen],
                   out |-> IF current # w.start THEN Append(out, current) ELSE out,
                   err |-> FALSE]

\* one iteration of the while loop of traverse; w is [start, t, direction,
\* max_depth, ord, queue, visited, running], out the result list:
\* [w, out, err]
traverse_step(s, w, out) ==
  IF w.queue = <<>> THEN [w |-> [w EXCEPT !.running = FALSE], out |-> out, err |-> FALSE]
  ELSE LET current == Head(w.queue)[1]
           depth == Head(w.queue)[2]
           rest == Tail(w.queue)
       IN IF current \in w.visited
          THEN [w |-> [w EXCEPT !.queue = rest], out |-> out, err |-> FALSE]
          ELSE IF current \notin DOMAIN s.ents
          THEN [w |-> [w EXCEPT !.queue = rest, !.visited = @ \cup {current},
                                !.running = FALSE],
                out |-> out, err |-> TRUE]
          ELSE LET seen == w.visited \cup {current}
                   nbrs == IF depth < w.max_depth
                           THEN InOrder(Neighbors(Entity(s, current), w.t, w.direction) \ seen,
                                        w.ord)
                           ELSE <<>>
                   pushed == [i \in 1..Len(nbrs) |-> <<nbrs[i], depth + 1>>]
               IN [w |-> [w EXCEPT !.queue = rest \o pushed, !.visited = seen],
                   out |-> IF current # w.start THEN Append(out, current) ELSE out,
                   err |-> FALSE]

\* one iteration of the while loop of get_strongest_path; w is [source,
\* target, t, ord, queue, visited, running]: [w, found, path, err]
path_step(s, w) ==
  IF w.queue = <<>> THEN [w |-> [w EXCEPT !.running = FALSE], found |-> FALSE, path |-> <<>>,
                          err |-> FALSE]
  ELSE LET i == FirstBest(w.queue)
           neg == w.queue[i].neg
           path == w.queue[i].path
           rest == RemoveAt(w.queue, i)
           current == Last(path)
           Expanded(x) ==
             IF x.err
             THEN [w |-> [w EXCEPT !.queue = rest, !.visited = @ \cup {current},
                                   !.running = FALSE],
                   found |-> FALSE, path |-> <<>>, err |-> TRUE]
             ELSE [w |-> [w EXCEPT !.queue = rest \o x.add, !.visited = @ \cup {current}],
                   found |-> FALSE, path |-> <<>>, err |-> FALSE]
       IN IF current = w.target
          THEN [w |-> [w EXCEPT !.queue = rest, !.running = FALSE],
                found |-> TRUE, path |-> path, err |-> FALSE]
          ELSE IF current \in w.visited
          THEN [w |-> [w EXCEPT !.queue = rest], found |-> FALSE, path |-> <<>>, err |-> FALSE]
          ELSE IF current \notin DOMAIN s.ents
          THEN [w |-> [w EXCEPT !.queue = rest, !.visited = @ \cup {current},
                                !.running = FALSE],
                found |-> FALSE, path |-> <<>>, err |-> TRUE]
          ELSE Expanded(Expand(s, w.t, neg, path,
                               InOrder(get_outgoing_neighbors(Entity(s, current), w.t)
                                         \ (w.visited \cup {current}), w.ord), 1))

Walking == ret.op \in {"traverse", "get_strongest_path"} /\ ret.args.running

\* store.traverse(start, t, direction, max_depth) is called
TraverseCalled ==
  /\ clock = MaxSteps
  /\ ret.op \notin {"traverse", "get_strongest_path"}
  /\ \E start \in Ids, t \in {None}, direction \in Directions,
        max_depth \in 0..MaxDepth, ord \in {IdList} :
       ret' = Ret("traverse",
                  [start |-> start, t |-> t, direction |-> direction, max_depth |-> max_depth,
                   ord |-> ord,
                   queue |-> IF start \in DOMAIN ents THEN <<<<start, 0>>>> ELSE <<>>,
                   visited |-> {}, running |-> start \in DOMAIN ents],
                  start \notin DOMAIN ents, FALSE, <<>>, {})
  /\ UNCHANGED <<StoreVars, xstats, cache, clock>>

\* the loop of traverse goes round once
TraverseStep ==
  /\ ret.op = "traverse"
  /\ ret.args.running
  /\ \E r \in {traverse_step(Store, ret.args, ret.out)} :
       ret' = Ret("traverse", r.w, ~r.w.running /\ ~r.err, r.err, r.out, {})
  /\ UNCHANGED <<StoreVars, xstats, cache, clock>>

\* store.get_strongest_path(source, target, t) is called
PathCalled ==
  /\ clock = MaxSteps
  /\ ret.op \notin {"traverse", "get_strongest_path"}
  /\ \E source \in Ids, target \in Ids, t \in {None}, ord \in {IdList} :
       LET held == source \in DOMAIN ents /\ target \in DOMAIN ents
       IN ret' = Ret("get_strongest_path",
                     [source |-> source, target |-> target, t |-> t, ord |-> ord,
                      queue |-> IF held THEN <<[neg |-> 0, path |-> <<source>>]>> ELSE <<>>,
                      visited |-> {}, running |-> held],
                     FALSE, FALSE, <<>>, {})
  /\ UNCHANGED <<StoreVars, xstats, cache, clock>>

\* the loop of get_strongest_path goes round once
PathStep ==
  /\ ret.op = "get_strongest_path"
  /\ ret.args.running
  /\ \E r \in {path_step(Store, ret.args)} :
       ret' = Ret("get_strongest_path", r.w, r.found, r.err, r.path, {})
  /\ UNCHANGED <<StoreVars, xstats, cache, clock>>

WalkNext ==
  \/ LinkEntity
  \/ LinkEdge
  \/ Unlink
  \/ TraverseCalled
  \/ TraverseStep
  \/ PathCalled
  \/ PathStep

WalkSpec == Init /\ [][WalkNext]_vars

WalkLive == WalkSpec /\ WF_vars(TraverseStep) /\ WF_vars(PathStep)

(***************************************************************************)
(* Properties of the graph store, checked under GraphSpec.                 *)
(***************************************************************************)

\* the edge records with the given source, target and type
Records(src, tgt, t) ==
  {e \in DOMAIN edges : edges[e].src = src /\ edges[e].tgt = tgt /\ edges[e].type = t}

NamedBy(dir, owner, key, e) ==
  owner \in DOMAIN dir /\ key \in DOMAIN dir[owner] /\ dir[owner][key] = e

\* C1: every edge record has both endpoints in the entity table, and the
\* source's outgoing directory and the target's incoming directory name
\* that record under the edge's type.
C1_EdgeTableAgreesWithDirectories ==
  \A e \in DOMAIN edges :
    /\ edges[e].src \in DOMAIN ents
    /\ edges[e].tgt \in DOMAIN ents
    /\ NamedBy(outgoing, edges[e].src, <<edges[e].type, edges[e].tgt>>, e)
    /\ NamedBy(incoming, edges[e].tgt, <<edges[e].type, edges[e].src>>, e)

\* C2: after remove_entity(x) returned true, no remaining entity's local
\* neighbour set holds x, and traverse from any remaining entity completes
\* without error and returns only entities of the entity table.
C2_RemovedEntityIsNobodysNeighbour ==
  (ret.op = "remove_entity" /\ ret.ok) =>
    /\ \A id \in DOMAIN ents : \A t \in EdgeTypes :
         ret.args[1] \notin Entity(Store, id).out[t] \cup Entity(Store, id).inn[t]
    /\ \A start \in DOMAIN ents : \A t \in GraphTypes : \A ord \in Orders :
         LET r == traverse(Store, start, t, "out", MaxDepth, Ids, ord)
         IN ~r.err /\ SeqRange(r.out) \subseteq DOMAIN ents

\* C4: a second add_edge(a, b, t) right after a first one leaves exactly
\* one edge record (a, b, t), and get_edges_between(a, b, t) has length 1.
C4_SecondAddEdgeCollapses ==
  [][(/\ ret.op = "add_edge" /\ ret.ok
      /\ ret'.op = "add_edge" /\ ret'.ok /\ ret'.args = ret.args)
     => (/\ Cardinality({e \in DOMAIN edges' :
                           /\ edges'[e].src = ret.args[1]
                           /\ edges'[e].tgt = ret.args[2]
                           /\ edges'[e].type = ret.args[3]}) = 1
         /\ Cardinality(get_edges_between(Store, ret.args[1], ret.args[2], ret.args[3]).eids)' = 1)]_vars

\* the pheromone of the edge the directory names from x to y
NamedEdge(x, y, t) == outgoing[x][<<t, y>>]
Linked(x, y, t) ==
  /\ x \in DOMAIN ents /\ y \in DOMAIN ents
  /\ NamedBy(outgoing, x, <<t, y>>, NamedEdge(x, y, t))
  /\ NamedEdge(x, y, t) \in DOMAIN edges

IsPath(p, t) == \A i \in 1..(Len(p) - 1) : Linked(p[i], p[i + 1], t)

RECURSIVE PheromoneSum(_, _)
PheromoneSum(p, t) ==
  IF Len(p) < 2 THEN 0
  ELSE edges[NamedEdge(p[1], p[2], t)].pheromone + PheromoneSum(Tail(p), t)

\* the sequences of distinct ids from source to target joined by edges
SimplePaths(source, target, t) ==
  {p \in UNION {[1..n -> Ids] : n \in 1..Cardinality(Ids)} :
     /\ p[1] = source /\ p[Len(p)] = target
     /\ \A i, j \in 1..Len(p) : i # j => p[i] # p[j]
     /\ IsPath(p, t)}

\* C9: a path get_strongest_path returns is not beaten by any simple path
\* from source to target over edges of that type.
C9_StrongestPathIsNotDominated ==
  \A source \in DOMAIN ents, target \in DOMAIN ents : \A t \in GraphTypes : \A ord \in Orders :
    LET r == get_strongest_path(Store, source, target, t, ord)
    IN (~r.err /\ r.found) =>
         \A p \in SimplePaths(source, target, t) :
           PheromoneSum(p, t) <= PheromoneSum(r.path, t)

\* y is one hop from x over an edge record of type t (any type for None)
Hop(x, y, t, direction) ==
  \E e \in DOMAIN edges :
    /\ t = None \/ edges[e].type = t
    /\ \/ direction \in {"out", "both"} /\ edges[e].src = x /\ edges[e].tgt = y
       \/ direction \in {"in", "both"} /\ edges[e].src = y /\ edges[e].tgt = x

RECURSIVE Within(_, _, _, _)
Within(start, t, direction, k) ==
  IF k = 0 THEN {start}
  ELSE LET prev == Within(start, t, direction, k - 1)
       IN prev \cup {y \in Ids : \E x \in prev : Hop(x, y, t, direction)}

Dist(start, y, t, direction) ==
  CHOOSE k \in 0..Cardinality(Ids) :
    /\ y \in Within(start, t, direction, k)
    /\ \A j \in 0..(k - 1) : y \notin Within(start, t, direction, j)

\* C10: without a predicate, traverse returns exactly the entities other
\* than start within max_depth hops, each once, nearest first.
C10_TraverseReturnsReachable ==
  \A start \in DOMAIN ents : \A t \in GraphTypes \cup {None} : \A direction \in Directions :
    \A depth \in 0..MaxDepth : \A ord \in Orders :
      LET r == traverse(Store, start, t, direction, depth, Ids, ord)
      IN /\ ~r.err
         /\ SeqRange(r.out) = Within(start, t, direction, depth) \ {start}
         /\ \A i, j \in 1..Len(r.out) : i # j => r.out[i] # r.out[j]
         /\ \A i, j \in 1..Len(r.out) :
              i < j => Dist(start, r.out[i], t, direction) <= Dist(start, r.out[j], t, direction)

\* the pairs (u, f) of distinct entities joined by an edge record
\* u -[:t]-> f
Pairs(t) ==
  {<<edges[e].src, edges[e].tgt>> : e \in {x \in DOMAIN edges :
      /\ edges[x].type = t
      /\ edges[x].src # edges[x].tgt
      /\ edges[x].src \in DOMAIN ents /\ edges[x].tgt \in DOMAIN ents}}

\* C8: a match of the one-edge pattern (u)-[:t]->(f) that returns gives
\* one binding per pair (u, f), u # f, joined by such an edge: with
\* a -> b and a -> c it binds f to b and to c.
C8_MatchBindsEveryPair ==
  \A t \in GraphTypes : \A tlabel \in {None, Unknown} : \A ord \in Orders :
    LET r == execute_graph_pattern(Store, None, EmptyMap, t, "out", tlabel, EmptyMap, ord)
    IN ~r.err => r.bindings = Pairs(t)

(***************************************************************************)
(* Properties of the query executor, checked under ExecSpec.               *)
(***************************************************************************)
\* id occurs in an edge record, a collection or an index of the store
\* with edge table es and collections cs
Occurs(id, es, cs) ==
  \/ \E e \in DOMAIN es : es[e].src = id \/ es[e].tgt = id
  \/ \E n \in DOMAIN cs :
       \/ id \in MemberIds(cs[n])
       \/ \E x \in SeqRange(cs[n].indexes) :
            \/ \E v \in DOMAIN x.vmap : id \in x.vmap[v]
            \/ \E i \in 1..Len(x.sorted) : x.sorted[i][2] = id

\* C3: once remove_entity(id) has returned true, here for each row of a
\* delete that was in the entity table, no edge record, no collection and
\* no index structure holds id.
C3_RemovedEntityLeavesNoTrace ==
  [][(ret'.op = "delete" /\ ret'.ok)
     => \A id \in ret'.rows \cap DOMAIN ents : ~Occurs(id, edges', colls')]_vars

\* C5: every index on p of a collection holds, for every member that has
\* p, the pair (current value of p, id) in its ordered entries and the id
\* in its value map under the current value.
C5_IndexHoldsCurrentValues ==
  \A n \in DOMAIN colls : \A x \in SeqRange(colls[n].indexes) :
    \A id \in MemberIds(colls[n]) :
      LET e == heap[MemberObj(colls[n], id)]
      IN has_property(e, x.prop) =>
           /\ <<e.props[x.prop], id>> \in SeqRange(x.sorted)
           /\ id \in x.vmap[e.props[x.prop]]

\* the selects with one filter on every property
TwoFilters == [PropNames -> {Filter(op, v) : op \in Operators, v \in Values}]

\* C6: a select gives the same rows, and raises or not alike, under two
\* plans that differ in the filter pushed into the index lookup.
C6_HintsDoNotChangeTheOutcome ==
  \A cname \in DOMAIN colls : \A filters \in TwoFilters : \A f1, f2 \in DOMAIN filters :
    LET r1 == execute_select(Store, cname, filters, f1)
        r2 == execute_select(Store, cname, filters, f2)
    IN /\ (r1.exc = "") = (r2.exc = "")
       /\ r1.rows = r2.rows

\* the members whose value of col has another type than the literal
OtherType(c, col, lit) ==
  {id \in MemberIds(c) : /\ has_property(heap[MemberObj(c, id)], col)
                         /\ heap[MemberObj(c, id)].props[col].k # lit.k}

\* C7: a select whose literal has another type than a stored value never
\* raises, whatever the comparator and the plan, and returns no row whose
\* value cannot be coerced to the literal's type.
C7_MismatchedLiteralNeverAborts ==
  \A cname \in DOMAIN colls : \A filters \in OneFilter(Operators) : \A col \in DOMAIN filters :
    LET lit == filters[col].val
        r == execute_select(Store, cname, filters, col)
    IN OtherType(colls[cname], col, lit) # {} =>
         /\ r.exc = ""
         /\ \A id \in r.rows \cap OtherType(colls[cname], col, lit) :
              ~Coerce(heap[MemberObj(colls[cname], id)].props[col], lit).err


(***************************************************************************)
(* Properties of the stigmergy cache, checked under CacheSpec.             *)
(***************************************************************************)
\* C11: after every add_trail (and every evaporate_all) returns, the cache
\* holds at most max_trails trails
C11_CacheHoldsAtMostMaxTrails ==
  ret.op \in {"add_trail", "evaporate_all"} => TotalTrails(cache) <= MaxTrails

\* C11 happens: an add_trail met a full cache, so that its capacity
\* enforcement evicted a trail (here the trail the call had just added)
C11_AddTrailEvicted ==
  /\ ret.op = "add_trail"
  /\ TotalTrails(cache) = MaxTrails
  /\ ret.args[1].success_count + ret.args[1].failure_count = 1
  /\ ret.args[1] \notin Held(cache)


(***************************************************************************)
(* Properties of pheromone, checked under PheromoneSpec.                   *)
(***************************************************************************)
\* C12: after any operation returns, every edge pheromone and every trail
\* pheromone lies in the closed range [0.1, 10.0]
C12_PheromoneStaysInRange ==
  /\ \A e \in DOMAIN edges :
        MIN_PHEROMONE <= edges[e].pheromone /\ edges[e].pheromone <= MAX_PHEROMONE
  /\ \A trail \in Held(cache) :
        TRAIL_MIN <= trail.pheromone /\ trail.pheromone <= TRAIL_MAX

\* C12 happens: traversals have brought an edge to the top of the range
\* and failures have brought a trail to its bottom
C12_BothEndsReached ==
  /\ \E e \in DOMAIN edges : edges[e].pheromone = MAX_PHEROMONE
  /\ \E trail \in Held(cache) : trail.pheromone = TRAIL_MIN /\ trail.failure_count > 1


C14_SelectIsCachedAndThenHits ==
  (ret.op = "select" /\ ret.ok) =>
     /\ TrailsOf(cache, ret.args.sig) # <<>>
     /\ ret.args.had => ret.args.hit


(***************************************************************************)
(* Properties of the query fingerprint, checked under SignSpec.            *)
(***************************************************************************)
SameButFilters(q1, q2) ==
  /\ q1.operation = q2.operation
  /\ q1.collection = q2.collection
  /\ q1.joins = q2.joins
  /\ q1.traversals = q2.traversals

\* C15: two queries that differ only in the literal values of
\* their filters have equal fingerprints, and two queries whose sets of
\* filter keys differ, all else being equal, have different fingerprints
C15_FingerprintIgnoresLiteralsOnly ==
  ret.op = "get_query_signature" =>
    LET q1 == ret.args[1]
        q2 == ret.args[2]
    IN SameButFilters(q1, q2) =>
         /\ DOMAIN q1.filters = DOMAIN q2.filters => ret.out[1] = ret.out[2]
         /\ DOMAIN q1.filters # DOMAIN q2.filters => ret.out[1] # ret.out[2]

\* C15 happens: the signatures of two queries with the same two filter
\* keys and different literals have been taken
C15_LiteralsDiffer ==
  /\ ret.op = "get_query_signature"
  /\ SameButFilters(ret.args[1], ret.args[2])
  /\ DOMAIN ret.args[1].filters = PropNames
  /\ DOMAIN ret.args[2].filters = PropNames
  /\ ret.args[1].filters # ret.args[2].filters

(***************************************************************************)
(* Properties of the store and its collections, checked under CollSpec.    *)
(***************************************************************************)

\* C16: an add_entity that raises leaves the entity table, the adjacency
\* directories, the collections with their members and indexes, and the
\* store statistics exactly as they were before the call
C16_RaisingAddEntityChangesNothing ==
  [][(ret'.op = "add_entity" /\ ret'.err) => UNCHANGED StoreVars]_vars

\* C17: after add_entity(collection, properties) returns e, get_entity(e.id)
\* is an entity with the supplied property bag, and the collection's scan
\* holds e exactly once
C17_AddedIsStoredAndScannedOnce ==
  (ret.op = "add_entity" /\ ret.ok /\ ret.args[2] # None) =>
    LET id == ret.args[3]
        c == colls[ret.args[2]]
    IN /\ id \in DOMAIN ents
       /\ Entity(Store, id).props = ret.args[4]
       /\ Cardinality({i \in 1..Len(c.members) : c.members[i][1] = id}) = 1
       /\ MemberObj(c, id) = ents[id]

\* C17 happens: an add_entity into a collection that has an index returned,
\* and the collection holds the entity among other members
C17_AddedAmongOtherMembers ==
  /\ ret.op = "add_entity" /\ ret.ok /\ ret.args[2] # None
  /\ Len(colls[ret.args[2]].members) > 1
  /\ colls[ret.args[2]].indexes # <<>>

\* the members of c that have the property p, and those of them whose p
\* equals value
MembersWith(c, p, hp) == {id \in MemberIds(c) : has_property(hp[MemberObj(c, id)], p)}
MembersEqual(c, p, value, hp) ==
  {id \in MembersWith(c, p, hp) : hp[MemberObj(c, id)].props[p] = value}

\* the index of c on p holds every member that has p, and nothing else: in
\* the value map under the member's value, in the ordered list once
Populated(c, p, hp) ==
  LET idx == IndexOf(c, p)
  IN /\ \A value \in DOMAIN idx.vmap : idx.vmap[value] = MembersEqual(c, p, value, hp)
     /\ SeqRange(idx.sorted) = {<<hp[MemberObj(c, id)].props[p], id>> : id \in MembersWith(c, p, hp)}
     /\ Len(idx.sorted) = Cardinality(MembersWith(c, p, hp))

InBounds(value, lo, hi) ==
  /\ lo = NoneVal \/ (Comparable(value, lo) /\ ~ValLess(value, lo))
  /\ hi = NoneVal \/ (Comparable(value, hi) /\ ~ValLess(hi, value))

\* the members of c a lookup on p is to return
Matching(c, p, a, hp) ==
  IF a.value # NoneVal THEN MembersEqual(c, p, a.value, hp)
  ELSE {id \in MembersWith(c, p, hp) : InBounds(hp[MemberObj(c, id)].props[p], a.lo, a.hi)}

\* C19: a lookup that returns, by value or by range, on a property that is
\* indexed or not, returns exactly the members whose property matches
C19_LookupReturnsExactlyTheMatches ==
  \A cname \in DOMAIN colls : \A p \in PropNames : \A a \in LookupArgs :
    LET Exact(r) == ~r.err => r.ids = Matching(colls[cname], p, a, heap)
    IN Exact(CollectionLookup(colls[cname], p, a.value, a.lo, a.hi, heap))

(***************************************************************************)
(* Properties of the executor's select, checked under ExecSpec.            *)
(***************************************************************************)

\* the members of the collection whose current properties pass every filter
Satisfying(s, cname, filters) ==
  {id \in MemberIds(s.colls[cname]) :
     RowMatches(s.heap[MemberObj(s.colls[cname], id)], filters)}

\* the literal of every filter has the type of the values the members hold
\* under the filter's property (no coercion takes part in the select)
TypesAgree(s, cname, filters) ==
  \A col \in DOMAIN filters : \A id \in MemberIds(s.colls[cname]) :
    LET e == s.heap[MemberObj(s.colls[cname], id)]
    IN has_property(e, col) => e.props[col].k = filters[col].val.k

\* C20: in every state reached through inserts, updates and deletes, a
\* select that returns gives exactly the members of the collection whose
\* current properties satisfy every filter (here for filters whose literals
\* have the type of the stored values, whatever filter the plan puts first)
C20_SelectReturnsExactlyTheSatisfying ==
  \A cname \in DOMAIN colls : \A filters \in {EmptyMap} \cup OneFilter(Operators) :
    \A first \in PropNames :
      LET Exact(r) == r.exc = "" => r.rows = Satisfying(Store, cname, filters)
      IN TypesAgree(Store, cname, filters) =>
           Exact(execute_select(Store, cname, filters, first))


(***************************************************************************)
(* Properties of the executor's dispatch, checked under DispatchSpec.      *)
(***************************************************************************)

\* C21: execute on a plan with an unrecognized operation raises, and a
\* select, update or delete on a collection that does not exist raises; in
\* each case the store and the stigmergy cache are left as they were and
\* no collection is created
C21_UnknownPlansRaiseAndChangeNothing ==
  [][(/\ ret'.op = "execute"
      /\ \/ ret'.args.operation \notin KnownOperations
         \/ ret'.args.operation \in {"select", "update", "delete"} /\ ~ret'.args.known)
     => (ret'.err /\ UNCHANGED <<StoreVars, cache>>)]_vars

\* C21 happens: a delete on the missing collection V raised on a store
\* that holds rows and a cache that holds a trail
C21_DeleteOnMissingCollectionRaised ==
  /\ ret.op = "execute" /\ ret.err
  /\ ret.args.operation = "delete" /\ ~ret.args.known
  /\ ents # EmptyMap
  /\ cache.trails # <<>>

(***************************************************************************)
(* Properties of drop_collection, checked under DropSpec.                  *)
(***************************************************************************)

\* C22: after drop_collection(name) returned true the collection is not in
\* the registry, none of its former members is in the entity table, no
\* edge record incident to a former member is in the edge table or named
\* by an adjacency directory, and the other entities are still present
C22_DropRemovesMembersAndTheirEdges ==
  [][(ret'.op = "drop_collection" /\ ret'.ok) =>
       LET name == ret'.args[1]
           gone == MemberIds(colls[name])
       IN /\ name \notin DOMAIN colls'
          /\ gone \cap DOMAIN ents' = {}
          /\ \A e \in DOMAIN edges' : edges'[e].src \notin gone /\ edges'[e].tgt \notin gone
          /\ \A d \in {outgoing', incoming'} :
               /\ gone \cap DOMAIN d = {}
               /\ \A id \in DOMAIN d : \A k \in DOMAIN d[id] : k[2] \notin gone
          /\ (DOMAIN ents) \ gone \subseteq DOMAIN ents']_vars

(***************************************************************************)
(* Properties of the graph operations, checked under LinkSpec.             *)
(***************************************************************************)

\* C23: add_edge(source, target, type) with a source or a target that is
\* not in the entity table returns absent and leaves the edge table, the
\* adjacency directories, the entities' neighbour sets and the statistics
\* as they were
C23_AddEdgeWithoutEndpointChangesNothing ==
  [][(/\ ret'.op = "add_edge"
      /\ \/ ret'.args[1] \notin DOMAIN ents
         \/ ret'.args[2] \notin DOMAIN ents)
     => (~ret'.ok /\ UNCHANGED StoreVars)]_vars

\* C23 happens: an add_edge from an entity of the store, which has edges,
\* to an id the store does not hold returned absent
C23_AddEdgeToMissingTarget ==
  /\ ret.op = "add_edge" /\ ~ret.ok
  /\ ret.args[1] \in DOMAIN ents
  /\ ret.args[2] \notin DOMAIN ents
  /\ edges # EmptyMap

\* C24: with a predicate (the set accept of the entities that pass it,
\* the start among them), traverse emits no entity that fails it and
\* emits every entity other than the start that passes it and lies within
\* max_depth hops of the start, also when the paths to it lead through
\* entities that fail
C24_PredicateFiltersEmissionOnly ==
  \A start \in DOMAIN ents : \A accept \in SUBSET Ids : \A ord \in Orders :
    \A t \in GraphTypes : \A depth \in 1..MaxDepth :
      LET Emitted(r) ==
            ~r.err => SeqRange(r.out) = (Within(start, t, "out", depth) \cap accept) \ {start}
      IN start \in accept => Emitted(traverse(Store, start, t, "out", depth, accept, ord))

\* path is a list of ids from source to target in which every two
\* consecutive ids are joined by an edge record of type t
JoinedPath(path, source, target, t) ==
  /\ path # <<>>
  /\ path[1] = source
  /\ path[Len(path)] = target
  /\ \A i \in 1..(Len(path) - 1) : Hop(path[i], path[i + 1], t, "out")

SuccessCount(c, sig, psig) ==
  LET held == {tr \in SeqRange(TrailsOf(c, sig)) : tr.path_signature = psig}
  IN IF held = {} THEN 0 ELSE (CHOOSE tr \in held : TRUE).success_count

\* C26: after every select and every match that returns, the cache holds
\* a trail under the fingerprint of the executed query, and the success
\* count of that trail was raised by the execution
C26_ReturningSelectAndMatchLeaveATrail ==
  [][(ret'.op = "execute" /\ ret'.ok /\ ret'.args.operation \in {"select", "match"}) =>
       \E tr \in SeqRange(TrailsOf(cache', ret'.args.sig)) :
          tr.success_count > SuccessCount(cache, ret'.args.sig, tr.path_signature)]_vars

\* C27: get_best_plan returns the plan of a trail of the query's fingerprint
\* that is not stale and whose quality no other such trail exceeds, it returns
\* None exactly when the fingerprint has no trail that is not stale, and lookup
\* emits no trail last used longer ago than the staleness window
Fresh(ts, now_) == SelectSeq(ts, LAMBDA t : now_ - t.last_used <= STALENESS_MINUTES)

C27_BestPlanIsTheFinestFreshTrail ==
  [][/\ ret'.op = "get_best_plan" =>
          LET fresh == Fresh(TrailsOf(cache, get_query_signature(ret'.args.query)), clock)
          IN /\ ret'.ok <=> fresh # <<>>
             /\ ret'.ok => \E i \in 1..Len(fresh) :
                              /\ fresh[i].execution_plan = ret'.out[1]
                              /\ \A j \in 1..Len(fresh) : ~QualityLess(fresh[i], fresh[j])
     /\ ret'.op = "lookup" =>
          /\ \A i \in 1..Len(ret'.out) : clock - ret'.out[i].last_used <= STALENESS_MINUTES
          /\ SeqRange(ret'.out) \subseteq
                SeqRange(TrailsOf(cache, get_query_signature(ret'.args.query)))]_vars

\* a plan came back although a finer trail of the fingerprint was stale
C27_StaleFinerTrailPassedOver ==
  /\ ret.op = "get_best_plan"
  /\ ret.ok
  /\ \E t \in SeqRange(TrailsOf(cache, get_query_signature(ret.args.query))) :
       /\ clock - t.last_used > STALENESS_MINUTES
       /\ \E u \in SeqRange(TrailsOf(cache, get_query_signature(ret.args.query))) :
            /\ u.execution_plan = ret.out[1]
            /\ QualityLess(u, t)

\* None came back for a fingerprint all of whose trails were stale
C27_NoPlanWhenAllStale ==
  /\ ret.op = "get_best_plan"
  /\ ~ret.ok
  /\ TrailsOf(cache, get_query_signature(ret.args.query)) # <<>>

\* C28: when an add_trail makes the number of trails exceed max_trails, every
\* trail that remains in the cache has a quality score at least that of every
\* trail the call evicted
C28_EvictedAreOfLowestQuality ==
  [][(/\ ret'.op = "add_trail"
      /\ TotalTrails(cache) = MaxTrails
      /\ Pair(ret'.args[1]) \notin {Pair(t) : t \in Held(cache)})
     => LET before == Held(cache) \cup {ret'.args[1]}
            evicted == before \ Held(cache')
        IN /\ Held(cache') \subseteq before
           /\ Cardinality(evicted) = 1
           /\ \A kept \in Held(cache'), gone \in evicted : ~QualityLess(kept, gone)]_vars

\* an add_trail met a full cache and its new trail stayed, while an older
\* trail of strictly lower quality than both remaining ones was evicted
C28_WeakerOldTrailEvicted ==
  /\ ret.op = "add_trail"
  /\ ret.args[1] \in Held(cache)
  /\ ret.args[1].success_count + ret.args[1].failure_count = 1
  /\ ret.args[2] # {}
  /\ \A kept \in Held(cache), gone \in ret.args[2] : QualityLess(gone, kept)

(***************************************************************************)
(* Properties of the trails of the cache, checked under FadeSpec.          *)
(***************************************************************************)
TrailOf(c, pair) == CHOOSE t \in Held(c) : Pair(t) = pair

\* C29: in every reachable state the cache holds at most one trail for a
\* pair of pattern fingerprint and plan fingerprint; an add_trail for a pair
\* the cache holds leaves the number of trails unchanged and raises exactly
\* one of that trail's success and failure counts, by one, and on failure
\* sets its pheromone to 0.8 times what it was, no lower than 0.1
C29_OneTrailPerPairReinforcedInPlace ==
  /\ [](\A i, j \in 1..TotalTrails(cache) :
          LET all == AllTrails(cache.trails, 1)
          IN Pair(all[i]) = Pair(all[j]) => i = j)
  /\ [][(/\ ret'.op = "add_trail"
          /\ <<get_query_signature(ret'.args.query), get_path_signature(ret'.args.plan)>>
               \in {Pair(t) : t \in Held(cache)})
         => LET pair == <<get_query_signature(ret'.args.query),
                          get_path_signature(ret'.args.plan)>>
                old == TrailOf(cache, pair)
                new == TrailOf(cache', pair)
            IN /\ TotalTrails(cache') = TotalTrails(cache)
               /\ {Pair(t) : t \in Held(cache')} = {Pair(t) : t \in Held(cache)}
               /\ Held(cache') \ {new} = Held(cache) \ {old}
               /\ ret'.args.success =>
                     /\ new.success_count = old.success_count + 1
                     /\ new.failure_count = old.failure_count
               /\ ~ret'.args.success =>
                     /\ new.failure_count = old.failure_count + 1
                     /\ new.success_count = old.success_count
                     /\ new.pheromone = IF 8 * old.pheromone < 10 * TRAIL_MIN THEN TRAIL_MIN
                                        ELSE (8 * old.pheromone) \div 10]_vars

\* a failure was recorded on a trail the cache held, whose pheromone the
\* floor of 0.1 kept from falling to 0.8 times its value
C29_FailureMetTheFloor ==
  /\ ret.op = "add_trail"
  /\ ~ret.args.success
  /\ ret.args.trail.failure_count > 12
  /\ ret.args.trail.pheromone = TRAIL_MIN
  /\ ret.args.trail \in Held(cache)
  /\ TotalTrails(cache) = MaxTrails

\* C30: after evaporate_all returns every trail in the cache has pheromone
\* of at least 0.2, a trail has left the cache only if its decayed pheromone
\* was below 0.2, and no pattern fingerprint maps to an empty list of trails
Decayed(t) == Max2((t.pheromone * (100 - CACHE_EVAPORATION)) \div 100, TRAIL_MIN)

C30_EvaporationPrunesOnlyTheWeak ==
  [][ret'.op = "evaporate_all" =>
       /\ \A t \in Held(cache') : t.pheromone >= PRUNE_BELOW /\ t.pheromone >= TRAIL_MIN
       /\ \A t \in Held(cache) :
             \/ Decayed(t) < PRUNE_BELOW /\ Pair(t) \notin {Pair(u) : u \in Held(cache')}
             \/ Decayed(t) >= PRUNE_BELOW /\ [t EXCEPT !.pheromone = Decayed(t)] \in Held(cache')
       /\ Cardinality(Held(cache')) <= Cardinality(Held(cache))
       /\ \A i \in 1..Len(cache'.trails) : cache'.trails[i].list # <<>>]_vars

\* an evaporate_all removed a trail whose pheromone was above the floor of
\* 0.1, emptying its fingerprint, and kept a trail of another fingerprint
C30_WeakTrailPrunedStrongKept ==
  /\ ret.op = "evaporate_all"
  /\ \E t \in ret.args.pruned :
       /\ t.pheromone > TRAIL_MIN
       /\ t.query_signature \notin Signatures(cache)
  /\ Held(cache) # {}

(***************************************************************************)
(* Properties of indexes under repeated insertion, checked under CollSpec. *)
(***************************************************************************)
\* the member id of c, holding props, has one entry in each structure of
\* every index of c on a property it has
IndexedOnce(c, id, props) ==
  \A i \in 1..Len(c.indexes) :
    LET idx == c.indexes[i]
    IN idx.prop \in DOMAIN props =>
         /\ Cardinality({k \in 1..Len(idx.sorted) :
                           idx.sorted[k] = <<props[idx.prop], id>>}) = 1
         /\ id \in idx.vmap[props[idx.prop]]

\* C31: a member with an indexed property present has exactly one
\* (value, id) entry in the index's ordered list and its id under its value
\* in the value map, also after add_entity is called a second time with the
\* same, unchanged entity
C31_SecondAddKeepsOneIndexEntry ==
  [][(/\ ret'.op = "add_entity" /\ ret'.ok
      /\ ret'.args[2] \in DOMAIN colls
      /\ ret'.args[3] \in MemberIds(colls[ret'.args[2]])
      /\ heap[MemberObj(colls[ret'.args[2]], ret'.args[3])].props = ret'.args[4]
      /\ IndexedOnce(colls[ret'.args[2]], ret'.args[3], ret'.args[4]))
     => IndexedOnce(colls'[ret'.args[2]], ret'.args[3], ret'.args[4])]_vars

(***************************************************************************)
(* Properties of the executor's delete, checked under ExecSpec.            *)
(***************************************************************************)
\* the delete that took s to r removed the members of cname that satisfied
\* the filters, no other entity, and returned the removed ones
RemovedExactly(s, r, cname, filters) ==
  LET sat == Satisfying(s, cname, filters)
  IN /\ r.rows = sat
     /\ sat \cap DOMAIN r.s.ents = {}
     /\ sat \cap MemberIds(r.s.colls[cname]) = {}
     /\ \A id \in (DOMAIN s.ents) \ sat :
          /\ id \in DOMAIN r.s.ents
          /\ Entity(r.s, id).props = Entity(s, id).props
     /\ MemberIds(r.s.colls[cname]) = MemberIds(s.colls[cname]) \ sat

\* C32: after a delete on collection C with filters F returns, no member of
\* C that satisfied F is left in the entity table or in C, every other
\* entity is still present with its properties, and the returned rows are
\* exactly the removed entities (here for filters whose literals have the
\* type of the stored values, whatever filter the plan puts first)
C32_DeleteRemovesExactlyTheSatisfying ==
  \A cname \in DOMAIN colls : \A filters \in {EmptyMap} \cup OneFilter(Operators) :
    \A first \in PropNames :
      LET Exact(r) == r.exc = "" => RemovedExactly(Store, r, cname, filters)
      IN TypesAgree(Store, cname, filters) =>
           Exact(execute_delete(Store, cname, filters, first))

(***************************************************************************)
(* Properties of the optimizer, checked under ColonySpec.                  *)
(***************************************************************************)
\* what the ant with the draw d explored: its plan and the plan's cost
Explored(query, d) ==
  [plan |-> Plan(query.operation, d.order),
   cost |-> (estimate_cost(Plan(query.operation, d.order)) * d.factor) \div 100]

AllExplored(query, draws) ==
  {Explored(query, draws[i][a]) : i \in DOMAIN draws, a \in 1..ColonyAnts}

\* C33: optimize returns a plan that one of its ants explored, at a cost
\* that is the least over the plans of all ants in all iterations
C33_OptimizeReturnsTheGlobalBest ==
  [][ret'.op = "optimize" =>
       LET all == AllExplored(ret'.args.query, ret'.args.draws)
       IN /\ [plan |-> ret'.out[1], cost |-> ret'.out[2]] \in all
          /\ \A e \in all : ret'.out[2] <= e.cost]_vars

\* the plan returned was explored in the first iteration, and every plan
\* of the last iteration cost more
C33_BestFoundBeforeTheLastIteration ==
  /\ ret.op = "optimize"
  /\ \E a \in 1..ColonyAnts :
       Explored(ret.args.query, ret.args.draws[1][a]) = [plan |-> ret.out[1], cost |-> ret.out[2]]
  /\ \A a \in 1..ColonyAnts :
       Explored(ret.args.query, ret.args.draws[ColonyRounds][a]).cost > ret.out[2]

(***************************************************************************)
(* Properties of evaporation at a given rate, checked under DecaySpec.     *)
(***************************************************************************)
\* C34: evaporate_pheromones(decay_rate = r) sets the pheromone p of every
\* edge to max(p * (1 - r), MIN_PHEROMONE) for the r the caller supplied,
\* and changes nothing in the stigmergy cache
C34_EvaporationUsesTheSuppliedRate ==
  [][ret'.op = "evaporate_pheromones" =>
       /\ DOMAIN edges' = DOMAIN edges
       /\ \A e \in DOMAIN edges :
            edges'[e].pheromone =
              Max2((edges[e].pheromone * (100 - ret'.args.decay_rate)) \div 100, MIN_PHEROMONE)
       /\ cache' = cache]_vars

(***************************************************************************)
(* Properties of membership and statistics, checked under CollSpec and     *)
(* GraphSpec.                                                              *)
(***************************************************************************)
\* C35: in every reachable state every id a collection holds is in the
\* entity table, which maps it to the entity the collection holds, also
\* after add_entity with an explicit id that the store already holds
C35_MembersAreTheTableEntities ==
  \A n \in DOMAIN colls : \A id \in MemberIds(colls[n]) :
    /\ id \in DOMAIN ents
    /\ ents[id] = MemberObj(colls[n], id)

\* C36: after any sequence of add_entity, add_edge and remove_entity the
\* counters of get_stats agree with the store: total_entities is the number
\* of entities in the entity table, total_edges the number of edge records
\* in the edge table, total_collections the number of collections
C36_StatsAgreeWithTheStore ==
  /\ stats.total_entities = Cardinality(DOMAIN ents)
  /\ stats.total_edges = Cardinality(DOMAIN edges)
  /\ stats.total_collections = Cardinality(DOMAIN colls)

(***************************************************************************)
(* Properties of the cache's statistics and of the trail add_trail         *)
(* returns, checked under FadeSpec and CacheSpec.                          *)
(***************************************************************************)
\* C37: after any sequence of add_trail and evaporate_all the total_trails
\* statistic of the cache is the number of trails it holds under all
\* pattern fingerprints
C37_TotalTrailsCountsTheTrails ==
  cache.stats.total_trails = TotalTrails(cache)

\* the evaporate_all that ended the run pruned trails and left one trail,
\* which the statistic counts
C37_CountedAfterPruning ==
  /\ ret.op = "evaporate_all"
  /\ ret.args.pruned # {}
  /\ TotalTrails(cache) = 1
  /\ cache.stats.total_trails = 1
  /\ clock = MaxTime

(***************************************************************************)
(* Termination of the walks, checked under WalkLive.                       *)
(***************************************************************************)
\* C38: traverse and get_strongest_path terminate on every store state,
\* with cycles, self-loops and edges both ways between two entities, for
\* every max_depth and direction: a call that runs comes to its end, by
\* returning or by raising
C38_WalksTerminate == Walking ~> ~Walking

\* a traverse of depth MaxDepth in both directions has come to its end by
\* returning, on a store with a self-loop and with edges both ways between
\* two entities
C38_TraverseEndedOnACycle ==
  /\ ret.op = "traverse" /\ ~ret.args.running /\ ret.ok
  /\ ret.args.direction = "both" /\ ret.args.max_depth = MaxDepth
  /\ Len(ret.out) >= 1
  /\ \E x, y \in DOMAIN ents :
       /\ x # y
       /\ x \in Entity(Store, x).out["F"]
       /\ y \in Entity(Store, x).out["F"]
       /\ x \in Entity(Store, y).out["F"]


\* C39: when add_trail returns, the trail it returns is held by the cache
\* under its pattern fingerprint, also when the cache is at capacity: the
\* capacity enforcement of the same call does not evict the new trail
C39_ReturnedTrailIsHeld ==
  ret.op = "add_trail" =>
    ret.args[1] \in SeqRange(TrailsOf(cache, ret.args[1].query_signature))

====
